---------------------------- MODULE Spec2Model ----------------------------
(***************************************************************************)
(* A model of the MiniC compiler pipeline (xjarifx/MiniC):                 *)
(*   lexer -> parser -> semantic analyzer -> IR generator -> optimizer     *)
(*   -> x86-64 code generator.                                             *)
(*                                                                         *)
(* Strings that the program inspects character by character (names, TAC    *)
(* operands, source text) are sequences of one-character strings, so that  *)
(* int(), str(), startswith() and isdigit() are computed, not assumed.     *)
(***************************************************************************)
EXTENDS Integers, Sequences, FiniteSets, TLC

(***************************************************************************)
(* Bounds of the model                                                     *)
(***************************************************************************)
\* number of statements in a nested body of a generated scope program
MaxBody == 2

(***************************************************************************)
(* Python values shared by all phases                                      *)
(***************************************************************************)
\* Optional[...] values are sequences of length 0 (None) or 1
None == <<>>
Some(v) == <<v>>

\* names used by the generated programs
nx == <<"x">>
ny == <<"y">>
Names == {nx, ny}
Types == {"int", "bool"}

(***************************************************************************)
(* AST nodes (compiler/ast_nodes.py)                                       *)
(***************************************************************************)
VarDeclaration(var_type, name, line, column) ==
    [kind |-> "VarDeclaration", var_type |-> var_type, name |-> name,
     line |-> line, column |-> column]
Assignment(name, expression, line, column) ==
    [kind |-> "Assignment", name |-> name, expression |-> expression,
     line |-> line, column |-> column]
IfStatement(condition, then_block, else_block, line, column) ==
    [kind |-> "IfStatement", condition |-> condition, then_block |-> then_block,
     else_block |-> else_block, line |-> line, column |-> column]
WhileStatement(condition, body, line, column) ==
    [kind |-> "WhileStatement", condition |-> condition, body |-> body,
     line |-> line, column |-> column]
PrintStatement(expression, line, column) ==
    [kind |-> "PrintStatement", expression |-> expression,
     line |-> line, column |-> column]
Block(statements, line, column) ==
    [kind |-> "Block", statements |-> statements, line |-> line, column |-> column]
BinaryOp(operator, left, right, line, column) ==
    [kind |-> "BinaryOp", operator |-> operator, left |-> left, right |-> right,
     line |-> line, column |-> column]
UnaryOp(operator, operand, line, column) ==
    [kind |-> "UnaryOp", operator |-> operator, operand |-> operand,
     line |-> line, column |-> column]
Identifier(name, line, column) ==
    [kind |-> "Identifier", name |-> name, line |-> line, column |-> column]
IntLiteral(value, line, column) ==
    [kind |-> "IntLiteral", value |-> value, line |-> line, column |-> column]
BoolLiteral(value, line, column) ==
    [kind |-> "BoolLiteral", value |-> value, line |-> line, column |-> column]

ArithmeticOps == {"+", "-", "*", "/", "%"}
ComparisonOps == {"<", ">", "<=", ">="}
EqualityOps == {"==", "!="}
LogicalOps == {"&&", "||"}
BinaryOps == ArithmeticOps \cup ComparisonOps \cup EqualityOps \cup LogicalOps
UnaryOps == {"-", "!"}

VARIABLES
    ast,            \* the Program handed to analyze: its statement list
    sem_pc,         \* "constructed" | "analyzing" | "accepted" | "rejected"
    sem_stack,      \* the visit_* calls in progress, one frame per statement loop
    current_scope,  \* SemanticAnalyzer.current_scope: the chain root .. innermost
    errors,         \* SemanticAnalyzer.errors
    raised,         \* the SemanticError analyze raised to its caller, if any
    expr_type       \* what the last expression.accept(self) returned

semVars == <<ast, sem_pc, sem_stack, current_scope, errors, raised, expr_type>>

VARIABLES
    ir_pc,            \* "none" | "generated": whether a TAC list is at hand
    ir_instructions   \* the TAC list generate_ir returned (or the caller built)

irVars == <<ir_pc, ir_instructions>>

VARIABLES
    opt_pc,         \* "idle" | "running" | "returned" | "hung": the call of optimize
    instructions,   \* Optimizer.instructions
    changed,        \* local of optimize
    iteration,      \* local of optimize
    old_length,     \* local of optimize
    results         \* what the calls of optimize made so far returned, in order

optVars == <<opt_pc, instructions, changed, iteration, old_length, results>>

VARIABLES
    source_code,   \* Lexer.source_code
    position,      \* Lexer.position
    lex_line,      \* Lexer.line
    lex_column,    \* Lexer.column
    tokens,        \* Lexer.tokens
    lex_pc,        \* "tokenize" | "returned" | "raised": the call of tokenize
    lex_error,     \* the LexerError raised, if any
    spans          \* history: what each call of _next_token matched, in order

lexVars == <<source_code, position, lex_line, lex_column, tokens, lex_pc,
             lex_error, spans>>

VARIABLES
    asm_lines,       \* AssemblyGenerator.asm_lines
    var_offsets,     \* AssemblyGenerator.var_offsets
    current_offset,  \* AssemblyGenerator.current_offset
    generators,      \* history: how many AssemblyGenerator objects were made
    generated        \* history: the calls of generate made so far, in order,
                     \* each with the generator it was made on, the TAC list
                     \* passed, the generator's fields after it and the text
                     \* returned

asmVars == <<asm_lines, var_offsets, current_offset, generators, generated>>

VARIABLES
    parser_tokens,    \* Parser.tokens
    current,          \* Parser.current
    parse_pc,         \* "parse" | "returned" | "raised" | "RecursionError": the
                      \* call of parse, and how it ended
    parsed,           \* the Program returned, if any: its statement list
    parse_error,      \* the ParseError raised, if any
    statement_calls   \* history: the calls of _statement that returned, in the
                      \* order they returned, with current before and after

parseVars == <<parser_tokens, current, parse_pc, parsed, parse_error, statement_calls>>

VARIABLES
    tac,        \* the TAC list a pass method of an Optimizer is called on next
    pass_log    \* history: the calls of pass methods so far, in order, each
                \* with the list given, the list returned and whether the
                \* call runs forever instead of returning

passVars == <<tac, pass_log>>

vars == <<lexVars, semVars, irVars, optVars, asmVars, parseVars, passVars>>

\* what a phase leaves alone: the state of the other phases
notLex == <<semVars, irVars, optVars, asmVars, parseVars, passVars>>
notSem == <<lexVars, irVars, optVars, asmVars, parseVars, passVars>>
notIr == <<lexVars, semVars, optVars, asmVars, parseVars, passVars>>
notOpt == <<lexVars, semVars, irVars, asmVars, parseVars, passVars>>
notAsm == <<lexVars, semVars, irVars, optVars, parseVars, passVars>>
notParse == <<lexVars, semVars, irVars, optVars, asmVars, passVars>>
notPass == <<lexVars, semVars, irVars, optVars, asmVars, parseVars>>

(***************************************************************************)
(* Semantic analyzer (compiler/semantic.py)                                *)
(***************************************************************************)
SemanticError(message, arg, line, column) ==
    [message |-> message, arg |-> arg, line |-> line, column |-> column]

\* SymbolTable.symbols of a fresh table: the empty dict
EmptySymbols == [n \in {} |-> "int"]

\* SymbolTable.enter_scope: a new table whose parent is the current one
enter_scope(scope) == Append(scope, EmptySymbols)

\* SymbolTable.parent of the innermost table: the chain without it
parent(scope) == SubSeq(scope, 1, Len(scope) - 1)

\* a scope exit that forgets to go back to the parent
exit_scope_keeps(scope) == scope

\* SymbolTable.exit_scope: back to the parent
exit_scope(scope) == parent(scope)

\* SymbolTable.lookup: this table, then the parents; "None" when not found
RECURSIVE lookup(_, _)
lookup(scope, name) ==
    IF scope = <<>> THEN "None"
    ELSE IF name \in DOMAIN scope[Len(scope)] THEN scope[Len(scope)][name]
    ELSE lookup(parent(scope), name)

\* a declare that looks for the name in the enclosing scopes too
declare_any_scope(scope, name, var_type, line, column) ==
    LET symbols == scope[Len(scope)] IN
    IF lookup(scope, name) # "None"
    THEN [raised |-> TRUE,
          error |-> SemanticError("already declared in this scope", name, line, column)]
    ELSE [raised |-> FALSE,
          scope |-> [scope EXCEPT ![Len(scope)] =
                        [n \in DOMAIN symbols \cup {name} |->
                            IF n = name THEN var_type ELSE symbols[n]]]]

\* SymbolTable.declare on the innermost table: the exception, or the new chain
declare(scope, name, var_type, line, column) ==
    LET symbols == scope[Len(scope)] IN
    IF name \in DOMAIN symbols
    THEN [raised |-> TRUE,
          error |-> SemanticError("already declared in this scope", name, line, column)]
    ELSE [raised |-> FALSE,
          scope |-> [scope EXCEPT ![Len(scope)] =
                        [n \in DOMAIN symbols \cup {name} |->
                            IF n = name THEN var_type ELSE symbols[n]]]]

Returns(t) == [raised |-> FALSE, type |-> t]
Raises(message, arg, node) ==
    [raised |-> TRUE, error |-> SemanticError(message, arg, node.line, node.column)]

RECURSIVE accept(_, _)

visit_int_literal(node, scope) == Returns("int")

visit_bool_literal(node, scope) == Returns("bool")

visit_identifier(node, scope) ==
    LET var_type == lookup(scope, node.name) IN
    IF var_type = "None"
    THEN Raises("Undeclared variable", node.name, node)
    ELSE Returns(var_type)

\* operator rules in which == and != take int operands only
binary_op_rule_int_equality(node, left_type, right_type) ==
    IF node.operator \in ArithmeticOps
    THEN IF left_type # "int" \/ right_type # "int"
         THEN Raises("Arithmetic operator requires int operands", <<>>, node)
         ELSE Returns("int")
    ELSE IF node.operator \in ComparisonOps \cup EqualityOps
    THEN IF left_type # "int" \/ right_type # "int"
         THEN Raises("Comparison operator requires int operands", <<>>, node)
         ELSE Returns("bool")
    ELSE IF node.operator \in LogicalOps
    THEN IF left_type # "bool" \/ right_type # "bool"
         THEN Raises("Logical operator requires bool operands", <<>>, node)
         ELSE Returns("bool")
    ELSE Raises("Unknown operator", <<>>, node)

\* the operator rules of visit_binary_op, once both operand types are known
binary_op_rule(node, left_type, right_type) ==
    IF node.operator \in ArithmeticOps
    THEN IF left_type # "int" \/ right_type # "int"
         THEN Raises("Arithmetic operator requires int operands", <<>>, node)
         ELSE Returns("int")
    ELSE IF node.operator \in ComparisonOps
    THEN IF left_type # "int" \/ right_type # "int"
         THEN Raises("Comparison operator requires int operands", <<>>, node)
         ELSE Returns("bool")
    ELSE IF node.operator \in EqualityOps
    THEN IF left_type # right_type
         THEN Raises("Equality operator requires operands of same type", <<>>, node)
         ELSE Returns("bool")
    ELSE IF node.operator \in LogicalOps
    THEN IF left_type # "bool" \/ right_type # "bool"
         THEN Raises("Logical operator requires bool operands", <<>>, node)
         ELSE Returns("bool")
    ELSE Raises("Unknown operator", <<>>, node)

visit_binary_op(node, scope) ==
    LET left == accept(node.left, scope) IN
    IF left.raised THEN left
    ELSE LET right == accept(node.right, scope) IN
         IF right.raised THEN right
         ELSE binary_op_rule(node, left.type, right.type)

visit_unary_op(node, scope) ==
    LET operand == accept(node.operand, scope) IN
    IF operand.raised THEN operand
    ELSE IF node.operator = "-"
    THEN IF operand.type # "int"
         THEN Raises("Unary '-' requires int operand", <<>>, node)
         ELSE Returns("int")
    ELSE IF node.operator = "!"
    THEN IF operand.type # "bool"
         THEN Raises("Unary '!' requires bool operand", <<>>, node)
         ELSE Returns("bool")
    ELSE Raises("Unknown unary operator", <<>>, node)

\* node.accept(self) for an expression node: the visitor dispatch
accept(node, scope) ==
    CASE node.kind = "IntLiteral" -> visit_int_literal(node, scope)
      [] node.kind = "BoolLiteral" -> visit_bool_literal(node, scope)
      [] node.kind = "Identifier" -> visit_identifier(node, scope)
      [] node.kind = "BinaryOp" -> visit_binary_op(node, scope)
      [] node.kind = "UnaryOp" -> visit_unary_op(node, scope)

\* a condition check that lets every type through
condition_is_bool_any(cond_type) == TRUE

\* the test of visit_if_statement and visit_while_statement on the condition
condition_is_bool(cond_type) == cond_type = "bool"

\* the test of visit_assignment on the two types
assignable(var_type, value_type) == var_type = value_type

\* what expr_type records of a call of accept
TypeOrError(result) == IF result.raised THEN "error" ELSE result.type

\* one statement loop in progress: `for statement in stmts`, about to visit
\* stmts[idx]; kind names the method that runs the loop; else_block is the
\* else list visit_if_statement still has to run after its then loop
Frame(stmts, kind, else_block) ==
    [stmts |-> stmts, idx |-> 1, kind |-> kind, else_block |-> else_block]

Top == sem_stack[Len(sem_stack)]
AtStatement ==
    /\ sem_pc = "analyzing"
    /\ sem_stack # <<>>
    /\ Top.idx <= Len(Top.stmts)
Current == Top.stmts[Top.idx]
Visiting(kind) == AtStatement /\ Current.kind = kind

\* the loop of the innermost frame moves on to its next statement
Advanced == [sem_stack EXCEPT ![Len(sem_stack)].idx = @ + 1]

\* a SemanticError leaves every visit_* in progress and reaches analyze, which
\* records it and raises a new SemanticError (semantic.py 101-110)
analyze_raise ==
    SemanticError("Found semantic error(s)", <<>>, 0, 0)

Reject(e) ==
    /\ errors' = Append(errors, e)
    /\ raised' = Some(analyze_raise)
    /\ sem_pc' = "rejected"
    /\ sem_stack' = <<>>

\* analyze: ast.accept(self) enters visit_program
Analyze ==
    /\ UNCHANGED notSem
    /\ sem_pc = "constructed"
    /\ sem_pc' = "analyzing"
    /\ sem_stack' = <<Frame(ast, "visit_program", <<>>)>>
    /\ UNCHANGED <<ast, current_scope, errors, raised, expr_type>>

VisitVarDeclaration ==
    /\ UNCHANGED notSem
    /\ Visiting("VarDeclaration")
    /\ LET r == declare(current_scope, Current.name, Current.var_type,
                        Current.line, Current.column) IN
       IF r.raised
       THEN Reject(r.error) /\ UNCHANGED <<ast, current_scope, expr_type>>
       ELSE /\ current_scope' = r.scope
            /\ sem_stack' = Advanced
            /\ UNCHANGED <<ast, sem_pc, errors, raised, expr_type>>

VisitAssignment ==
    /\ UNCHANGED notSem
    /\ Visiting("Assignment")
    /\ LET var_type == lookup(current_scope, Current.name)
           r == accept(Current.expression, current_scope) IN
       IF var_type = "None"
       THEN /\ Reject(SemanticError("Undeclared variable", Current.name,
                                    Current.line, Current.column))
            /\ UNCHANGED <<ast, current_scope, expr_type>>
       ELSE /\ expr_type' = TypeOrError(r)
            /\ IF r.raised
               THEN Reject(r.error)
               ELSE IF ~assignable(var_type, r.type)
               THEN Reject(SemanticError("Type mismatch", Current.name,
                                         Current.line, Current.column))
               ELSE sem_stack' = Advanced /\ UNCHANGED <<sem_pc, errors, raised>>
            /\ UNCHANGED <<ast, current_scope>>

\* visit_if_statement up to the start of its then loop
VisitIfStatement ==
    /\ UNCHANGED notSem
    /\ Visiting("IfStatement")
    /\ LET r == accept(Current.condition, current_scope) IN
       /\ expr_type' = TypeOrError(r)
       /\ IF r.raised
          THEN Reject(r.error) /\ UNCHANGED current_scope
          ELSE IF ~condition_is_bool(r.type)
          THEN /\ Reject(SemanticError("If condition must be of type bool", <<>>,
                                       Current.line, Current.column))
               /\ UNCHANGED current_scope
          ELSE /\ current_scope' = enter_scope(current_scope)
               /\ sem_stack' = Append(Advanced,
                       Frame(Current.then_block, "if_then", Current.else_block))
               /\ UNCHANGED <<sem_pc, errors, raised>>
    /\ UNCHANGED ast

VisitWhileStatement ==
    /\ UNCHANGED notSem
    /\ Visiting("WhileStatement")
    /\ LET r == accept(Current.condition, current_scope) IN
       /\ expr_type' = TypeOrError(r)
       /\ IF r.raised
          THEN Reject(r.error) /\ UNCHANGED current_scope
          ELSE IF ~condition_is_bool(r.type)
          THEN /\ Reject(SemanticError("While condition must be of type bool", <<>>,
                                       Current.line, Current.column))
               /\ UNCHANGED current_scope
          ELSE /\ current_scope' = enter_scope(current_scope)
               /\ sem_stack' = Append(Advanced, Frame(Current.body, "while_body", <<>>))
               /\ UNCHANGED <<sem_pc, errors, raised>>
    /\ UNCHANGED ast

VisitPrintStatement ==
    /\ UNCHANGED notSem
    /\ Visiting("PrintStatement")
    /\ LET r == accept(Current.expression, current_scope) IN
       /\ expr_type' = TypeOrError(r)
       /\ IF r.raised
          THEN Reject(r.error)
          ELSE sem_stack' = Advanced /\ UNCHANGED <<sem_pc, errors, raised>>
    /\ UNCHANGED <<ast, current_scope>>

VisitBlock ==
    /\ UNCHANGED notSem
    /\ Visiting("Block")
    /\ current_scope' = enter_scope(current_scope)
    /\ sem_stack' = Append(Advanced, Frame(Current.statements, "block", <<>>))
    /\ UNCHANGED <<ast, sem_pc, errors, raised, expr_type>>

\* the statement loop of a nested scope is over: exit_scope, and for the then
\* loop of an if with a non-empty else list, the else scope is entered
ExitScope ==
    /\ UNCHANGED notSem
    /\ sem_pc = "analyzing"
    /\ sem_stack # <<>>
    /\ Top.idx > Len(Top.stmts)
    /\ Top.kind # "visit_program"
    /\ LET rest == SubSeq(sem_stack, 1, Len(sem_stack) - 1)
           outer == exit_scope(current_scope) IN
       IF Top.kind = "if_then" /\ Top.else_block # <<>>
       THEN /\ current_scope' = enter_scope(outer)
            /\ sem_stack' = Append(rest, Frame(Top.else_block, "if_else", <<>>))
       ELSE /\ current_scope' = outer
            /\ sem_stack' = rest
    /\ UNCHANGED <<ast, sem_pc, errors, raised, expr_type>>

\* visit_program is over: analyze finds self.errors empty and returns
AnalyzeReturn ==
    /\ UNCHANGED notSem
    /\ sem_pc = "analyzing"
    /\ sem_stack # <<>>
    /\ Top.kind = "visit_program"
    /\ Top.idx > Len(Top.stmts)
    /\ sem_stack' = <<>>
    /\ IF errors # <<>>
       THEN raised' = Some(analyze_raise) /\ sem_pc' = "rejected"
       ELSE raised' = raised /\ sem_pc' = "accepted"
    /\ UNCHANGED <<ast, current_scope, errors, expr_type>>

SemNext ==
    \/ Analyze
    \/ VisitVarDeclaration
    \/ VisitAssignment
    \/ VisitIfStatement
    \/ VisitWhileStatement
    \/ VisitPrintStatement
    \/ VisitBlock
    \/ ExitScope
    \/ AnalyzeReturn


(***************************************************************************)
(* Python str and int                                                      *)
(***************************************************************************)
Digits == <<"0", "1", "2", "3", "4", "5", "6", "7", "8", "9">>
IsDigit(c) == \E d \in 1..10 : Digits[d] = c
DigitValue(c) == (CHOOSE d \in 1..10 : Digits[d] = c) - 1

\* str.isdigit(), on ASCII text
isdigit(s) == s # <<>> /\ \A i \in 1..Len(s) : IsDigit(s[i])

RECURSIVE NatToStr(_)
NatToStr(n) ==
    IF n < 10 THEN <<Digits[n + 1]>>
    ELSE NatToStr(n \div 10) \o <<Digits[(n % 10) + 1]>>

\* str(n) of an int
str(n) == IF n < 0 THEN <<"-">> \o NatToStr(-n) ELSE NatToStr(n)

RECURSIVE StrToNat(_)
StrToNat(s) ==
    IF s = <<>> THEN 0
    ELSE 10 * StrToNat(SubSeq(s, 1, Len(s) - 1)) + DigitValue(s[Len(s)])

\* whether int(s) returns (an optional sign, then digits) or raises ValueError
IntParses(s) ==
    /\ s # <<>>
    /\ isdigit(IF s[1] \in {"+", "-"} THEN Tail(s) ELSE s)

\* int(s) where it returns
int(s) ==
    IF s[1] = "-" THEN -StrToNat(Tail(s))
    ELSE IF s[1] = "+" THEN StrToNat(Tail(s))
    ELSE StrToNat(s)

str_true == <<"t", "r", "u", "e">>
str_false == <<"f", "a", "l", "s", "e">>

(***************************************************************************)
(* Lexer (compiler/lexer.py).  The source is a sequence of characters;     *)
(* position counts from 0 as in Python, so the character at position is    *)
(* source_code[position + 1].                                              *)
(***************************************************************************)
Token(type, value, line, column) ==
    [type |-> type, value |-> value, line |-> line, column |-> column]

LexerError(char, line, column) ==
    [message |-> "Invalid character", char |-> char, line |-> line, column |-> column]

Letters ==
    {"a", "b", "c", "d", "e", "f", "g", "h", "i", "j", "k", "l", "m",
     "n", "o", "p", "q", "r", "s", "t", "u", "v", "w", "x", "y", "z",
     "A", "B", "C", "D", "E", "F", "G", "H", "I", "J", "K", "L", "M",
     "N", "O", "P", "Q", "R", "S", "T", "U", "V", "W", "X", "Y", "Z", "_"}
DigitChars == {Digits[d] : d \in 1..10}
Whitespace == {" ", "\t", "\n", "\r"}
\* characters above code point 127, written by their code points: a letter
\* (LATIN SMALL LETTER E WITH ACUTE) and a decimal digit (ARABIC-INDIC DIGIT
\* THREE, of Unicode category Nd)
NonAscii == {"U+00E9", "U+0663"}
\* what \d matches in a str pattern: every character of category Nd
UnicodeDecimals == DigitChars \cup {"U+0663"}

KEYWORDS ==
    << [value |-> <<"i", "n", "t">>, type |-> "INT"],
       [value |-> <<"b", "o", "o", "l">>, type |-> "BOOL"],
       [value |-> <<"i", "f">>, type |-> "IF"],
       [value |-> <<"e", "l", "s", "e">>, type |-> "ELSE"],
       [value |-> <<"w", "h", "i", "l", "e">>, type |-> "WHILE"],
       [value |-> <<"p", "r", "i", "n", "t">>, type |-> "PRINT"],
       [value |-> str_true, type |-> "TRUE"],
       [value |-> str_false, type |-> "FALSE"] >>

\* the patterns in the order they are tried; type "None" marks skipped text
TOKEN_PATTERNS ==
    << [re |-> "block comment", text |-> <<>>, type |-> "None"],
       [re |-> "line comment", text |-> <<>>, type |-> "None"],
       [re |-> "whitespace", text |-> <<>>, type |-> "None"],
       [re |-> "text", text |-> <<"<", "=">>, type |-> "LESS_EQUAL"],
       [re |-> "text", text |-> <<">", "=">>, type |-> "GREATER_EQUAL"],
       [re |-> "text", text |-> <<"=", "=">>, type |-> "EQUAL"],
       [re |-> "text", text |-> <<"!", "=">>, type |-> "NOT_EQUAL"],
       [re |-> "text", text |-> <<"&", "&">>, type |-> "AND"],
       [re |-> "text", text |-> <<"|", "|">>, type |-> "OR"],
       [re |-> "text", text |-> <<"+">>, type |-> "PLUS"],
       [re |-> "text", text |-> <<"-">>, type |-> "MINUS"],
       [re |-> "text", text |-> <<"*">>, type |-> "MULTIPLY"],
       [re |-> "text", text |-> <<"/">>, type |-> "DIVIDE"],
       [re |-> "text", text |-> <<"%">>, type |-> "MODULO"],
       [re |-> "text", text |-> <<"<">>, type |-> "LESS_THAN"],
       [re |-> "text", text |-> <<">">>, type |-> "GREATER_THAN"],
       [re |-> "text", text |-> <<"!">>, type |-> "NOT"],
       [re |-> "text", text |-> <<"=">>, type |-> "ASSIGN"],
       [re |-> "text", text |-> <<";">>, type |-> "SEMICOLON"],
       [re |-> "text", text |-> <<"(">>, type |-> "LPAREN"],
       [re |-> "text", text |-> <<")">>, type |-> "RPAREN"],
       [re |-> "text", text |-> <<"{">>, type |-> "LBRACE"],
       [re |-> "text", text |-> <<"}">>, type |-> "RBRACE"],
       [re |-> "identifier", text |-> <<>>, type |-> "IDENTIFIER"],
       [re |-> "number", text |-> <<>>, type |-> "NUMBER"] >>

Least(S) == CHOOSE i \in S : \A j \in S : i <= j

\* source[pos:] starts with text
starts_with(source, pos, text) ==
    /\ pos + Len(text) <= Len(source)
    /\ SubSeq(source, pos + 1, pos + Len(text)) = text

\* how far from pos the characters stay within chars: the greedy X* of a class
run_length(source, pos, chars) ==
    LET stops == {i \in (pos + 1)..Len(source) : source[i] \notin chars}
    IN IF stops = {} THEN Len(source) - pos ELSE Least(stops) - 1 - pos

\* the length of regex.match(source, pos).group(0); 0 when there is no match
\* (no pattern matches the empty string)
match_length(pattern, source, pos) ==
    CASE pattern.re = "block comment" ->
            \* /\*.*?\*/ with DOTALL: up to the first */ after the opening /*
            LET closers == {i \in (pos + 3)..(Len(source) - 1) :
                               source[i] = "*" /\ source[i + 1] = "/"}
            IN IF starts_with(source, pos, <<"/", "*">>) /\ closers # {}
               THEN Least(closers) + 1 - pos ELSE 0
      [] pattern.re = "line comment" ->
            \* //[^\n]*
            LET ends == {i \in (pos + 3)..Len(source) : source[i] = "\n"}
            IN IF ~starts_with(source, pos, <<"/", "/">>) THEN 0
               ELSE IF ends = {} THEN Len(source) - pos
               ELSE Least(ends) - 1 - pos
      [] pattern.re = "whitespace" -> run_length(source, pos, Whitespace)
      [] pattern.re = "text" ->
            IF starts_with(source, pos, pattern.text) THEN Len(pattern.text) ELSE 0
      [] pattern.re = "identifier" ->
            IF source[pos + 1] \in Letters
            THEN 1 + run_length(source, pos + 1, Letters \cup DigitChars) ELSE 0
      [] pattern.re = "number" -> run_length(source, pos, UnicodeDecimals)

\* the patterns that match at pos, by their place in TOKEN_PATTERNS
matching(source, pos) ==
    {k \in 1..Len(TOKEN_PATTERNS) : match_length(TOKEN_PATTERNS[k], source, pos) > 0}

\* the mutation of lines 190-192 that takes a keyword at the head of a name
\* for the keyword
token_type_of_prefix(pattern, value) ==
    LET keys == {k \in 1..Len(KEYWORDS) :
                    /\ Len(KEYWORDS[k].value) <= Len(value)
                    /\ SubSeq(value, 1, Len(KEYWORDS[k].value)) = KEYWORDS[k].value}
    IN IF pattern.type = "IDENTIFIER" /\ keys # {}
       THEN KEYWORDS[CHOOSE k \in keys : TRUE].type
       ELSE pattern.type

\* lines 190-192: an identifier that is a keyword gets the keyword's type
token_type_of(pattern, value) ==
    LET keys == {k \in 1..Len(KEYWORDS) : KEYWORDS[k].value = value}
    IN IF pattern.type = "IDENTIFIER" /\ keys # {}
       THEN KEYWORDS[CHOOSE k \in keys : TRUE].type
       ELSE pattern.type

\* the mutation of _advance that counts the column on across a newline
advance_char_same_line(at, char) ==
    [position |-> at.position + 1, line |-> at.line, column |-> at.column + 1]

\* lines 213-218: one round of the loop of _advance, from the place at
advance_char(at, char) ==
    IF char = "\n"
    THEN [position |-> at.position + 1, line |-> at.line + 1, column |-> 1]
    ELSE [position |-> at.position + 1, line |-> at.line, column |-> at.column + 1]

\* _advance(count) from the place at: [position, line, column] after it
RECURSIVE _advance(_, _, _)
_advance(source, at, count) ==
    IF count = 0 THEN at
    ELSE IF at.position < Len(source)
    THEN _advance(source, advance_char(at, source[at.position + 1]), count - 1)
    ELSE _advance(source, at, count - 1)

\* the mutation of lines 182 and 195 that records on the token the line and
\* column reached after its text
Matched_after(pattern, value, at) ==
    /\ tokens' = IF pattern.type = "None" THEN tokens
                 ELSE Append(tokens, Token(token_type_of(pattern, value), value,
                                           at.line, at.column))
    /\ spans' = Append(spans, [text |-> value, skipped |-> pattern.type = "None"])
    /\ position' = at.position
    /\ lex_line' = at.line
    /\ lex_column' = at.column
    /\ UNCHANGED <<lex_pc, lex_error>>

\* lines 181-198: the first pattern that matches, its text consumed
Matched(pattern, value, at) ==
    /\ tokens' = IF pattern.type = "None" THEN tokens
                 ELSE Append(tokens, Token(token_type_of(pattern, value), value,
                                           lex_line, lex_column))
    /\ spans' = Append(spans, [text |-> value, skipped |-> pattern.type = "None"])
    /\ position' = at.position
    /\ lex_line' = at.line
    /\ lex_column' = at.column
    /\ UNCHANGED <<lex_pc, lex_error>>

\* lines 200-202: no pattern matched
Unmatched ==
    /\ lex_pc' = "raised"
    /\ lex_error' = Some(LexerError(source_code[position + 1], lex_line, lex_column))
    /\ UNCHANGED <<position, lex_line, lex_column, tokens, spans>>

\* _next_token, called by tokenize while position < len(source_code)
NextToken ==
    /\ lex_pc = "tokenize"
    /\ position < Len(source_code)
    /\ \E found \in {matching(source_code, position)} :
          IF found = {} THEN Unmatched
          ELSE \E pattern \in {TOKEN_PATTERNS[Least(found)]} :
               \E count \in {match_length(pattern, source_code, position)} :
               \E at \in {_advance(source_code,
                                   [position |-> position, line |-> lex_line,
                                    column |-> lex_column], count)} :
                  Matched(pattern,
                          SubSeq(source_code, position + 1, position + count), at)
    /\ UNCHANGED <<source_code, notLex>>

\* lines 169-171: the loop of tokenize is over; append EOF and return
TokenizeReturn ==
    /\ lex_pc = "tokenize"
    /\ ~(position < Len(source_code))
    /\ tokens' = Append(tokens, Token("EOF", <<>>, lex_line, lex_column))
    /\ lex_pc' = "returned"
    /\ UNCHANGED <<source_code, position, lex_line, lex_column, lex_error, spans, notLex>>

\* Lexer(source_code), tokenize about to run
LexerConstructed ==
    /\ position = 0
    /\ lex_line = 1
    /\ lex_column = 1
    /\ tokens = <<>>
    /\ lex_pc = "tokenize"
    /\ lex_error = None
    /\ spans = <<>>

\* the phases after the lexer, when they are handed an AST or a TAC list
NoSource ==
    /\ source_code = <<>>
    /\ LexerConstructed

(***************************************************************************)
(* Three-address code (compiler/ir_generator.py)                           *)
(***************************************************************************)
TACAssign(dest, src) == [kind |-> "TACAssign", dest |-> dest, src |-> src]
TACBinaryOp(dest, left, op, right) ==
    [kind |-> "TACBinaryOp", dest |-> dest, left |-> left, op |-> op, right |-> right]
TACUnaryOp(dest, op, operand) ==
    [kind |-> "TACUnaryOp", dest |-> dest, op |-> op, operand |-> operand]
TACLabel(label) == [kind |-> "TACLabel", label |-> label]
TACGoto(label) == [kind |-> "TACGoto", label |-> label]
TACIfFalse(condition, label) ==
    [kind |-> "TACIfFalse", condition |-> condition, label |-> label]
TACPrint(value) == [kind |-> "TACPrint", value |-> value]
TACVarDecl(var_type, name) ==
    [kind |-> "TACVarDecl", var_type |-> var_type, name |-> name]

(***************************************************************************)
(* IR generator (compiler/ir_generator.py).  The generator g is the record *)
(* of the fields instructions, temp_count and label_count.                 *)
(***************************************************************************)
IRGenerator == [instructions |-> <<>>, temp_count |-> 0, label_count |-> 0]

\* new_temp: the name, and the generator after the call
temp_name(g) == <<"t">> \o str(g.temp_count)
after_new_temp(g) == [g EXCEPT !.temp_count = @ + 1]

\* new_label
label_name(g) == <<"L">> \o str(g.label_count)
after_new_label(g) == [g EXCEPT !.label_count = @ + 1]

\* self.instructions.append(instr)
emit(g, instr) == [g EXCEPT !.instructions = Append(@, instr)]

\* temp = self.new_temp(); self.instructions.append(TACAssign(temp, src))
copy_to_new_temp(g, src) == after_new_temp(emit(g, TACAssign(temp_name(g), src)))

\* the `temp1 = result; temp2 = temp1` pair of the statement visitors
copy_twice(g, src) == copy_to_new_temp(copy_to_new_temp(g, src), temp_name(g))

\* the name of the temp the last new_temp of g returned
last_temp(g) == <<"t">> \o str(g.temp_count - 1)

RECURSIVE ir_accept(_, _)

ir_visit_int_literal(node, g) == [g |-> g, result |-> str(node.value)]

ir_visit_bool_literal(node, g) ==
    [g |-> g, result |-> IF node.value THEN str_true ELSE str_false]

ir_visit_identifier(node, g) == [g |-> g, result |-> node.name]

ir_visit_binary_op(node, g) ==
    LET left == ir_accept(node.left, g)
        right == ir_accept(node.right, left.g)
        g1 == copy_to_new_temp(right.g, left.result)
        left_temp == last_temp(g1)
        g2 == copy_to_new_temp(g1, right.result)
        right_temp == last_temp(g2)
        result_temp == temp_name(g2)
        g3 == emit(after_new_temp(g2),
                   TACBinaryOp(result_temp, left_temp, node.operator, right_temp))
        g4 == copy_to_new_temp(g3, result_temp)
    IN [g |-> g4, result |-> last_temp(g4)]

ir_visit_unary_op(node, g) ==
    LET operand == ir_accept(node.operand, g)
        g1 == copy_to_new_temp(operand.g, operand.result)
        operand_temp == last_temp(g1)
        result_temp == temp_name(g1)
        g2 == emit(after_new_temp(g1),
                   TACUnaryOp(result_temp, node.operator, operand_temp))
        g3 == copy_to_new_temp(g2, result_temp)
    IN [g |-> g3, result |-> last_temp(g3)]

\* node.accept(self) of the IR generator on an expression node
ir_accept(node, g) ==
    CASE node.kind = "IntLiteral" -> ir_visit_int_literal(node, g)
      [] node.kind = "BoolLiteral" -> ir_visit_bool_literal(node, g)
      [] node.kind = "Identifier" -> ir_visit_identifier(node, g)
      [] node.kind = "BinaryOp" -> ir_visit_binary_op(node, g)
      [] node.kind = "UnaryOp" -> ir_visit_unary_op(node, g)

RECURSIVE ir_visit_statements(_, _)

ir_visit_var_declaration(node, g) == emit(g, TACVarDecl(node.var_type, node.name))

ir_visit_assignment(node, g) ==
    LET e == ir_accept(node.expression, g)
        g1 == copy_twice(e.g, e.result)
    IN emit(g1, TACAssign(node.name, last_temp(g1)))

ir_visit_if_statement(node, g) ==
    LET c == ir_accept(node.condition, g)
        g1 == copy_twice(c.g, c.result)
        else_label == label_name(g1)
        end_label == label_name(after_new_label(g1))
        g2 == emit(after_new_label(after_new_label(g1)),
                   TACIfFalse(last_temp(g1), else_label))
        g3 == ir_visit_statements(node.then_block, g2)
        g4 == emit(emit(g3, TACGoto(end_label)), TACLabel(else_label))
        g5 == IF node.else_block # <<>>
              THEN ir_visit_statements(node.else_block, g4) ELSE g4
    IN emit(g5, TACLabel(end_label))

\* ir_visit_while_statement with the jump back going to the end label
ir_visit_while_statement_no_loop(node, g) ==
    LET start_label == label_name(g)
        end_label == label_name(after_new_label(g))
        g1 == emit(after_new_label(after_new_label(g)), TACLabel(start_label))
        c == ir_accept(node.condition, g1)
        g2 == copy_twice(c.g, c.result)
        g3 == emit(g2, TACIfFalse(last_temp(g2), end_label))
        g4 == ir_visit_statements(node.body, g3)
    IN emit(emit(g4, TACGoto(end_label)), TACLabel(end_label))

ir_visit_while_statement(node, g) ==
    LET start_label == label_name(g)
        end_label == label_name(after_new_label(g))
        g1 == emit(after_new_label(after_new_label(g)), TACLabel(start_label))
        c == ir_accept(node.condition, g1)
        g2 == copy_twice(c.g, c.result)
        g3 == emit(g2, TACIfFalse(last_temp(g2), end_label))
        g4 == ir_visit_statements(node.body, g3)
    IN emit(emit(g4, TACGoto(start_label)), TACLabel(end_label))

ir_visit_print_statement(node, g) ==
    LET e == ir_accept(node.expression, g)
        g1 == copy_twice(e.g, e.result)
    IN emit(g1, TACPrint(last_temp(g1)))

ir_visit_block(node, g) == ir_visit_statements(node.statements, g)

\* statement.accept(self) of the IR generator
ir_visit_statement(node, g) ==
    CASE node.kind = "VarDeclaration" -> ir_visit_var_declaration(node, g)
      [] node.kind = "Assignment" -> ir_visit_assignment(node, g)
      [] node.kind = "IfStatement" -> ir_visit_if_statement(node, g)
      [] node.kind = "WhileStatement" -> ir_visit_while_statement(node, g)
      [] node.kind = "PrintStatement" -> ir_visit_print_statement(node, g)
      [] node.kind = "Block" -> ir_visit_block(node, g)

\* `for statement in statements: statement.accept(self)`
ir_visit_statements(statements, g) ==
    IF statements = <<>> THEN g
    ELSE ir_visit_statements(Tail(statements), ir_visit_statement(Head(statements), g))

\* generate_ir(ast): a fresh IRGenerator, visit_program, its instructions
generate_ir(program) == ir_visit_statements(program, IRGenerator).instructions

\* MiniCCompiler.compile, phase 4, after analyze returned
GenerateIR ==
    /\ sem_pc = "accepted"
    /\ ir_pc = "none"
    /\ ir_pc' = "generated"
    /\ ir_instructions' = generate_ir(ast)
    /\ UNCHANGED notIr

(***************************************************************************)
(* Optimizer helpers (compiler/optimizer.py).  A Python constant value is  *)
(* the record [isbool, v]: True and False are the bools with v 1 and 0, as *)
(* Python's arithmetic and comparisons treat them.                         *)
(***************************************************************************)
PyInt(n) == [isbool |-> FALSE, v |-> n]
PyBool(b) == [isbool |-> TRUE, v |-> IF b THEN 1 ELSE 0]
Truthy(value) == value.v # 0

Abs(n) == IF n < 0 THEN -n ELSE n

\* Python's a // b for b # 0: the quotient rounded towards minus infinity
floordiv(a, b) ==
    LET q == Abs(a) \div Abs(b)
        r == Abs(a) % Abs(b)
    IN IF (a < 0) = (b < 0) THEN q
       ELSE IF r = 0 THEN -q ELSE -q - 1

\* Python's a % b for b # 0: the remainder with the divisor's sign
pymod(a, b) == a - b * floordiv(a, b)

_is_constant(value) ==
    \/ value \in {str_true, str_false}
    \/ IntParses(value)

_get_constant_value(value) ==
    IF value = str_true THEN PyBool(TRUE)
    ELSE IF value = str_false THEN PyBool(FALSE)
    ELSE PyInt(int(value))

_is_temp(name) == name # <<>> /\ name[1] = "t" /\ isdigit(Tail(name))

_value_to_string(value) ==
    IF value.isbool THEN (IF Truthy(value) THEN str_true ELSE str_false)
    ELSE str(value.v)

\* None when the operation is not folded, Some(value) otherwise
_evaluate_binary_op(op, left, right) ==
    CASE op = "+" -> Some(PyInt(left.v + right.v))
      [] op = "-" -> Some(PyInt(left.v - right.v))
      [] op = "*" -> Some(PyInt(left.v * right.v))
      [] op = "/" -> IF right.v = 0 THEN None
                     ELSE Some(PyInt(floordiv(left.v, right.v)))
      [] op = "%" -> IF right.v = 0 THEN None
                     ELSE Some(PyInt(pymod(left.v, right.v)))
      [] op = "<" -> Some(PyBool(left.v < right.v))
      [] op = ">" -> Some(PyBool(left.v > right.v))
      [] op = "<=" -> Some(PyBool(left.v <= right.v))
      [] op = ">=" -> Some(PyBool(left.v >= right.v))
      [] op = "==" -> Some(PyBool(left.v = right.v))
      [] op = "!=" -> Some(PyBool(left.v # right.v))
      [] op = "&&" -> Some(IF Truthy(left) THEN right ELSE left)
      [] op = "||" -> Some(IF Truthy(left) THEN left ELSE right)
      [] OTHER -> None

_evaluate_unary_op(op, operand) ==
    CASE op = "-" -> Some(PyInt(-operand.v))
      [] op = "!" -> Some(PyBool(~Truthy(operand)))
      [] OTHER -> None

\* The element of a one-element set.  Only({f(v) : v \in {e}}) is f(e) with
\* e evaluated once, as a Python local is when it is assigned.
Only(S) == CHOOSE r \in S : TRUE

\* a Python dict as a function; `del d[k]` when k is a key
EmptyDict == [k \in {} |-> 0]
DictSet(d, k, value) == [j \in DOMAIN d \cup {k} |-> IF j = k THEN value ELSE d[j]]
DictDel(d, k) == [j \in DOMAIN d \ {k} |-> d[j]]

(***************************************************************************)
(* constant_folding: one step of the loop over the instructions, on the    *)
(* state st of the locals optimized and constants.                         *)
(***************************************************************************)
\* the mutation of lines 117-119 that leaves the destination in constants
fold_keep_stale(st, instr) ==
    [optimized |-> Append(st.optimized, instr), constants |-> st.constants]

\* optimized.append(instr); if instr.dest in constants: del constants[instr.dest]
fold_keep(st, instr) ==
    [optimized |-> Append(st.optimized, instr),
     constants |-> DictDel(st.constants, instr.dest)]

\* optimized.append(TACAssign(dest, str(value))); if _is_temp(dest): constants[dest] = value
fold_replace(st, dest, value) ==
    [optimized |-> Append(st.optimized, TACAssign(dest, _value_to_string(value))),
     constants |-> IF _is_temp(dest) THEN DictSet(st.constants, dest, value)
                   ELSE st.constants]

\* the value of an operand that is a literal or a key of constants
fold_operand(constants, operand) ==
    IF operand \in DOMAIN constants THEN constants[operand]
    ELSE _get_constant_value(operand)

fold_is_const(constants, operand) ==
    _is_constant(operand) \/ operand \in DOMAIN constants

fold_assign(st, instr) ==
    IF _is_constant(instr.src)
    THEN [optimized |-> Append(st.optimized, instr),
          constants |-> IF _is_temp(instr.dest)
                        THEN DictSet(st.constants, instr.dest,
                                     _get_constant_value(instr.src))
                        ELSE st.constants]
    ELSE IF instr.src \in DOMAIN st.constants
    THEN fold_replace(st, instr.dest, st.constants[instr.src])
    ELSE fold_keep(st, instr)

fold_binary_op(st, instr) ==
    IF fold_is_const(st.constants, instr.left) /\ fold_is_const(st.constants, instr.right)
    THEN LET result == _evaluate_binary_op(instr.op,
                           fold_operand(st.constants, instr.left),
                           fold_operand(st.constants, instr.right))
         IN IF result # None THEN fold_replace(st, instr.dest, result[1])
            ELSE fold_keep(st, instr)
    ELSE fold_keep(st, instr)

fold_unary_op(st, instr) ==
    IF fold_is_const(st.constants, instr.operand)
    THEN LET result == _evaluate_unary_op(instr.op,
                           fold_operand(st.constants, instr.operand))
         IN IF result # None THEN fold_replace(st, instr.dest, result[1])
            ELSE fold_keep(st, instr)
    ELSE fold_keep(st, instr)

fold_step(st, instr) ==
    CASE instr.kind = "TACAssign" -> fold_assign(st, instr)
      [] instr.kind = "TACBinaryOp" -> fold_binary_op(st, instr)
      [] instr.kind = "TACUnaryOp" -> fold_unary_op(st, instr)
      [] OTHER -> [st EXCEPT !.optimized = Append(@, instr)]

\* `for instr in instructions:` from the state st with the step function
RECURSIVE fold_loop(_, _)
fold_loop(st, instrs) ==
    IF instrs = <<>> THEN st
    ELSE Only({fold_loop(next, Tail(instrs)) : next \in {fold_step(st, Head(instrs))}})

constant_folding(instrs) ==
    fold_loop([optimized |-> <<>>, constants |-> EmptyDict], instrs).optimized

(***************************************************************************)
(* copy_propagation.  `while src in copies: src = copies[src]` follows the *)
(* chain of copies; it runs forever exactly when the chain does not leave  *)
(* the keys within as many steps as there are keys.                        *)
(***************************************************************************)
RECURSIVE chase(_, _, _)
chase(copies, name, fuel) ==
    IF name \notin DOMAIN copies THEN [hangs |-> FALSE, name |-> name]
    ELSE IF fuel = 0 THEN [hangs |-> TRUE, name |-> name]
    ELSE Only({chase(copies, src, fuel - 1) : src \in {copies[name]}})

\* the result of the while loop started from name
resolve(copies, name) == chase(copies, name, Cardinality(DOMAIN copies))

\* the mutation that records every assignment to a temporary as a copy
records_copy_always(src, dest) == _is_temp(dest)

\* line 198: the assignment is recorded as a copy
records_copy(src, dest) == src # dest /\ _is_temp(dest)

copy_assign(st, instr) ==
    LET src == resolve(st.copies, instr.src)
    IN [optimized |-> Append(st.optimized, TACAssign(instr.dest, src.name)),
        copies |-> IF records_copy(src.name, instr.dest)
                   THEN DictSet(st.copies, instr.dest, src.name)
                   ELSE IF ~_is_temp(instr.dest)
                        THEN DictDel(st.copies, instr.dest)
                        ELSE st.copies,
        hangs |-> src.hangs]

copy_binary_op(st, instr) ==
    LET left == resolve(st.copies, instr.left)
        right == resolve(st.copies, instr.right)
    IN [optimized |-> Append(st.optimized,
                             TACBinaryOp(instr.dest, left.name, instr.op, right.name)),
        copies |-> DictDel(st.copies, instr.dest),
        hangs |-> left.hangs \/ right.hangs]

copy_unary_op(st, instr) ==
    LET operand == resolve(st.copies, instr.operand)
    IN [optimized |-> Append(st.optimized,
                             TACUnaryOp(instr.dest, instr.op, operand.name)),
        copies |-> DictDel(st.copies, instr.dest),
        hangs |-> operand.hangs]

copy_if_false(st, instr) ==
    LET condition == resolve(st.copies, instr.condition)
    IN [st EXCEPT !.optimized = Append(@, TACIfFalse(condition.name, instr.label)),
                  !.hangs = condition.hangs]

copy_print(st, instr) ==
    LET value == resolve(st.copies, instr.value)
    IN [st EXCEPT !.optimized = Append(@, TACPrint(value.name)),
                  !.hangs = value.hangs]

copy_step(st, instr) ==
    CASE instr.kind = "TACAssign" -> copy_assign(st, instr)
      [] instr.kind = "TACBinaryOp" -> copy_binary_op(st, instr)
      [] instr.kind = "TACUnaryOp" -> copy_unary_op(st, instr)
      [] instr.kind = "TACIfFalse" -> copy_if_false(st, instr)
      [] instr.kind = "TACPrint" -> copy_print(st, instr)
      [] OTHER -> [st EXCEPT !.optimized = Append(@, instr)]

\* the for loop; it does not get past an instruction whose while loop hangs
RECURSIVE copy_loop(_, _)
copy_loop(st, instrs) ==
    IF instrs = <<>> \/ st.hangs THEN st
    ELSE Only({copy_loop(next, Tail(instrs)) : next \in {copy_step(st, Head(instrs))}})

\* [hangs, optimized]: whether the pass runs forever, and what it returns if not
copy_propagation(instrs) ==
    copy_loop([optimized |-> <<>>, copies |-> EmptyDict, hangs |-> FALSE], instrs)

(***************************************************************************)
(* algebraic_simplification and strength_reduction                         *)
(***************************************************************************)
str_0 == <<"0">>
str_1 == <<"1">>
str_2 == <<"2">>

\* the instruction appended for a TACBinaryOp: the first branch that applies
\* simplify_binary_op with a row for 0 - x as well
simplify_binary_op_zero_minus(instr) ==
    CASE instr.op \in {"+", "-"} /\ instr.right = str_0 ->
            TACAssign(instr.dest, instr.left)
      [] instr.op \in {"+", "-"} /\ instr.right # str_0 /\ instr.left = str_0 ->
            TACAssign(instr.dest, instr.right)
      [] OTHER -> instr

simplify_binary_op(instr) ==
    CASE instr.op = "+" /\ instr.right = str_0 -> TACAssign(instr.dest, instr.left)
      [] instr.op = "+" /\ instr.right # str_0 /\ instr.left = str_0 ->
            TACAssign(instr.dest, instr.right)
      [] instr.op = "-" /\ instr.right = str_0 -> TACAssign(instr.dest, instr.left)
      [] instr.op = "*" /\ instr.right = str_1 -> TACAssign(instr.dest, instr.left)
      [] instr.op = "*" /\ instr.right # str_1 /\ instr.left = str_1 ->
            TACAssign(instr.dest, instr.right)
      [] instr.op = "*" /\ instr.right # str_1 /\ instr.left # str_1
            /\ (instr.right = str_0 \/ instr.left = str_0) ->
            TACAssign(instr.dest, str_0)
      [] instr.op = "/" /\ instr.right = str_1 -> TACAssign(instr.dest, instr.left)
      [] instr.op = "||" /\ (instr.left = str_true \/ instr.right = str_true) ->
            TACAssign(instr.dest, str_true)
      [] instr.op = "||" /\ instr.left # str_true /\ instr.right # str_true
            /\ instr.left = str_false ->
            TACAssign(instr.dest, instr.right)
      [] instr.op = "||" /\ instr.left \notin {str_true, str_false}
            /\ instr.right = str_false ->
            TACAssign(instr.dest, instr.left)
      [] instr.op = "&&" /\ (instr.left = str_false \/ instr.right = str_false) ->
            TACAssign(instr.dest, str_false)
      [] instr.op = "&&" /\ instr.left # str_false /\ instr.right # str_false
            /\ instr.left = str_true ->
            TACAssign(instr.dest, instr.right)
      [] instr.op = "&&" /\ instr.left \notin {str_true, str_false}
            /\ instr.right = str_true ->
            TACAssign(instr.dest, instr.left)
      [] OTHER -> instr

simplify_step(instr) ==
    IF instr.kind = "TACBinaryOp" THEN simplify_binary_op(instr) ELSE instr

algebraic_simplification(instrs) ==
    [i \in 1..Len(instrs) |-> simplify_step(instrs[i])]

\* reduce_binary_op that looks for the literal 2 on the right only
reduce_binary_op_right(instr) ==
    IF instr.op = "*" /\ instr.right = str_2
    THEN TACBinaryOp(instr.dest, instr.left, "+", instr.left)
    ELSE instr

reduce_binary_op(instr) ==
    IF instr.op = "*" /\ instr.right = str_2
    THEN TACBinaryOp(instr.dest, instr.left, "+", instr.left)
    ELSE IF instr.op = "*" /\ instr.left = str_2
    THEN TACBinaryOp(instr.dest, instr.right, "+", instr.right)
    ELSE instr

reduce_step(instr) ==
    IF instr.kind = "TACBinaryOp" THEN reduce_binary_op(instr) ELSE instr

strength_reduction(instrs) ==
    [i \in 1..Len(instrs) |-> reduce_step(instrs[i])]

(***************************************************************************)
(* dead_code_elimination.  Indices are those of the Python list, from 0.   *)
(***************************************************************************)
\* the instructions at the indices (from 1) in keep, in their order
SelectIndices(instrs, keep) ==
    LET F[i \in 0..Len(instrs)] ==
            IF i = 0 THEN <<>>
            ELSE IF i \in keep THEN Append(F[i - 1], instrs[i]) ELSE F[i - 1]
    IN F[Len(instrs)]

\* labels[instr.label] = i, the last definition of a label winning
label_index(instrs, label) ==
    LET defs == {i \in 1..Len(instrs) :
                    instrs[i].kind = "TACLabel" /\ instrs[i].label = label}
    IN IF defs = {} THEN None
       ELSE Some((CHOOSE i \in defs : \A j \in defs : j <= i) - 1)

\* successors that takes the instruction after a Goto as well
successors_falls_through(instrs, idx) ==
    LET instr == instrs[idx + 1]
        next == IF idx + 1 < Len(instrs) THEN <<idx + 1>> ELSE <<>>
    IN IF instr.kind \in {"TACGoto", "TACIfFalse"}
       THEN label_index(instrs, instr.label) \o next
       ELSE next

\* what one round of the worklist loop appends for the instruction at idx
successors(instrs, idx) ==
    LET instr == instrs[idx + 1]
        target == label_index(instrs, instr.label)
        next == IF idx + 1 < Len(instrs) THEN <<idx + 1>> ELSE <<>>
    IN CASE instr.kind = "TACGoto" -> target
         [] instr.kind = "TACIfFalse" -> target \o next
         [] OTHER -> next

\* one round of `while worklist:`, worklist.pop() taking the last element
reach_step(instrs, st) ==
    LET idx == st.worklist[Len(st.worklist)]
        rest == SubSeq(st.worklist, 1, Len(st.worklist) - 1)
    IN IF idx < 0 \/ idx >= Len(instrs) \/ idx \in st.reachable
       THEN [reachable |-> st.reachable, worklist |-> rest]
       ELSE [reachable |-> st.reachable \cup {idx},
             worklist |-> rest \o successors(instrs, idx)]

RECURSIVE reach_loop(_, _)
reach_loop(instrs, st) ==
    IF st.worklist = <<>> THEN st.reachable
    ELSE Only({reach_loop(instrs, next) : next \in {reach_step(instrs, st)}})

_find_reachable_code(instrs) ==
    reach_loop(instrs, [reachable |-> {}, worklist |-> <<0>>])

\* what one instruction adds to used_vars
uses(instr) ==
    CASE instr.kind = "TACAssign" ->
            IF _is_temp(instr.src) \/ ~_is_temp(instr.dest) THEN {instr.src} ELSE {}
      [] instr.kind = "TACBinaryOp" ->
            {n \in {instr.left, instr.right} : _is_temp(n)}
      [] instr.kind = "TACUnaryOp" -> {n \in {instr.operand} : _is_temp(n)}
      [] instr.kind = "TACIfFalse" -> {n \in {instr.condition} : _is_temp(n)}
      [] instr.kind = "TACPrint" -> {n \in {instr.value} : _is_temp(n)}
      [] OTHER -> {}

used_vars(instrs) == UNION {uses(instrs[i]) : i \in 1..Len(instrs)}

has_dest(instr) == instr.kind \in {"TACAssign", "TACBinaryOp", "TACUnaryOp"}

\* keep, in the second loop of _remove_unused_temps
kept(instr, used) ==
    ~(has_dest(instr) /\ _is_temp(instr.dest) /\ instr.dest \notin used)

\* one round of `while changed:` of _remove_unused_temps
remove_round(current_instructions) ==
    SelectIndices(current_instructions,
        Only({ {i \in 1..Len(current_instructions) : kept(current_instructions[i], used)} :
               used \in {used_vars(current_instructions)} }))

\* the while loop, which runs forever exactly when the rounds do not settle
\* within as many rounds as there are instructions, plus the last one
RECURSIVE remove_loop(_, _)
remove_loop(current_instructions, fuel) ==
    Only({ IF Len(optimized) = Len(current_instructions)
           THEN [hangs |-> FALSE, optimized |-> optimized]
           ELSE IF fuel = 0
           THEN [hangs |-> TRUE, optimized |-> optimized]
           ELSE remove_loop(optimized, fuel - 1) :
           optimized \in {remove_round(current_instructions)} })

\* [hangs, optimized]
_remove_unused_temps(instrs) == remove_loop(instrs, Len(instrs))

\* [hangs, optimized]
dead_code_elimination(instrs) ==
    Only({ _remove_unused_temps(optimized) :
           optimized \in {SelectIndices(instrs,
                              {i + 1 : i \in _find_reachable_code(instrs)})} })

(***************************************************************************)
(* optimize: one round of the while loop applies the five passes in order. *)
(***************************************************************************)
max_iterations == 10

\* lines 45-47, on what copy_propagation returned
optimize_round_tail(instrs) ==
    Only({ dead_code_elimination(reduced) :
           reduced \in {strength_reduction(algebraic_simplification(instrs))} })

\* [hangs, instructions]: the passes of one round applied to instrs; a pass
\* that runs forever leaves self.instructions as the pass before it set it
optimize_round(instrs) ==
    Only({ Only({ IF copied.hangs
                  THEN [hangs |-> TRUE, instructions |-> folded]
                  ELSE Only({ [hangs |-> dce.hangs, instructions |-> dce.optimized] :
                              dce \in {optimize_round_tail(copied.optimized)} }) :
                  copied \in {copy_propagation(folded)} }) :
           folded \in {constant_folding(instrs)} })

\* lines 32-36: self.instructions = instructions; changed = True; iteration = 0
OptimizeCall ==
    /\ ir_pc = "generated"
    /\ opt_pc = "idle"
    /\ opt_pc' = "running"
    /\ instructions' = ir_instructions
    /\ changed' = TRUE
    /\ iteration' = 0
    /\ UNCHANGED <<old_length, results, notOpt>>

\* lines 39-51: one round of `while changed and iteration < max_iterations`
OptimizeCycle ==
    /\ opt_pc = "running"
    /\ changed /\ iteration < max_iterations
    /\ \E round \in {optimize_round(instructions)} :
          IF round.hangs
          THEN /\ opt_pc' = "hung"
               /\ old_length' = Len(instructions)
               /\ instructions' = round.instructions
               /\ UNCHANGED <<changed, iteration>>
          ELSE /\ opt_pc' = "running"
               /\ old_length' = Len(instructions)
               /\ instructions' = round.instructions
               /\ changed' = (Len(round.instructions) # Len(instructions))
               /\ iteration' = iteration + 1
    /\ UNCHANGED <<results, notOpt>>

\* line 53: the loop condition is false; return self.instructions
OptimizeReturn ==
    /\ opt_pc = "running"
    /\ ~(changed /\ iteration < max_iterations)
    /\ opt_pc' = "returned"
    /\ results' = Append(results, instructions)
    /\ UNCHANGED <<instructions, changed, iteration, old_length, notOpt>>

(***************************************************************************)
(* What the assembly emitted for a TAC list does when it runs              *)
(* (compiler/asmgen.py, _generate_instruction).  A machine word is the     *)
(* record [isbool, v]: v is what the stack slot or register holds, isbool  *)
(* records whether it was produced as a truth value.  The run m has the    *)
(* fields pc (index into the list, from 1), mem (stack slots written so    *)
(* far), out (values printed), typed (every operator so far was applied to *)
(* operands of the types it is defined on), fault and steps.               *)
(***************************************************************************)
MaxSteps == 80   \* instructions executed before a run is cut off

\* x86 idivq: the quotient rounded towards zero, the remainder with the sign
\* of the dividend
idivq_quotient(a, b) ==
    LET q == Abs(a) \div Abs(b)
    IN IF (a < 0) = (b < 0) THEN q ELSE -q

idivq_remainder(a, b) == a - b * idivq_quotient(a, b)

\* andq and orq on two's complement words
RECURSIVE NatAnd(_, _)
NatAnd(a, b) ==
    IF a = 0 \/ b = 0 THEN 0
    ELSE 2 * NatAnd(a \div 2, b \div 2) + (IF a % 2 = 1 /\ b % 2 = 1 THEN 1 ELSE 0)

andq(a, b) ==
    CASE a >= 0 /\ b >= 0 -> NatAnd(a, b)
      [] a >= 0 /\ b < 0 -> a - NatAnd(a, -b - 1)
      [] a < 0 /\ b >= 0 -> b - NatAnd(b, -a - 1)
      [] OTHER -> -((-a - 1) + (-b - 1) - NatAnd(-a - 1, -b - 1)) - 1

orq(a, b) == a + b - andq(a, b)

\* xorq $1: the lowest bit flipped
xorq_1(a) == IF a % 2 = 0 THEN a + 1 ELSE a - 1

\* `movq $value` for an operand _is_constant accepts, with true and false
\* replaced by 1 and 0
immediate(value) ==
    IF value = str_true THEN PyBool(TRUE)
    ELSE IF value = str_false THEN PyBool(FALSE)
    ELSE PyInt(int(value))

\* an operand whose slot was never written holds whatever the stack held
readable(m, operand) == _is_constant(operand) \/ operand \in DOMAIN m.mem

load(m, operand) ==
    IF _is_constant(operand) THEN immediate(operand) ELSE m.mem[operand]

store(m, dest, word) ==
    [m EXCEPT !.mem = DictSet(@, dest, word), !.pc = @ + 1, !.steps = @ + 1]

fault(m, what) == [m EXCEPT !.fault = what]

\* the operand types the operator is defined on
binary_operands_typed(op, left, right) ==
    CASE op \in ArithmeticOps \cup ComparisonOps -> ~left.isbool /\ ~right.isbool
      [] op \in EqualityOps -> left.isbool = right.isbool
      [] op \in LogicalOps -> left.isbool /\ right.isbool

unary_operand_typed(op, operand) ==
    IF op = "-" THEN ~operand.isbool ELSE operand.isbool

\* lines 145-175: %rax after the operation, for a divisor other than 0
binary_result(op, a, b) ==
    CASE op = "+" -> PyInt(a + b)
      [] op = "-" -> PyInt(a - b)
      [] op = "*" -> PyInt(a * b)
      [] op = "/" -> PyInt(idivq_quotient(a, b))
      [] op = "%" -> PyInt(idivq_remainder(a, b))
      [] op = "<" -> PyBool(a < b)
      [] op = ">" -> PyBool(a > b)
      [] op = "<=" -> PyBool(a <= b)
      [] op = ">=" -> PyBool(a >= b)
      [] op = "==" -> PyBool(a = b)
      [] op = "!=" -> PyBool(a # b)
      [] op = "&&" -> [isbool |-> TRUE, v |-> andq(a, b)]
      [] op = "||" -> [isbool |-> TRUE, v |-> orq(a, b)]

exec_assign(m, instr) ==
    IF ~readable(m, instr.src) THEN fault(m, "uninitialized")
    ELSE store(m, instr.dest, load(m, instr.src))

exec_binary_op(m, instr) ==
    IF ~readable(m, instr.left) \/ ~readable(m, instr.right)
    THEN fault(m, "uninitialized")
    ELSE LET left == load(m, instr.left)
             right == load(m, instr.right)
             checked == [m EXCEPT !.typed =
                            @ /\ binary_operands_typed(instr.op, left, right)]
         IN IF instr.op \in {"/", "%"} /\ right.v = 0
            THEN fault(checked, "division by zero")
            ELSE store(checked, instr.dest, binary_result(instr.op, left.v, right.v))

\* lines 185-187 emit `movq $true, %rax` for the operand true: no such symbol
exec_unary_op(m, instr) ==
    IF instr.operand \in {str_true, str_false} THEN fault(m, "undefined symbol")
    ELSE IF ~readable(m, instr.operand) THEN fault(m, "uninitialized")
    ELSE LET operand == load(m, instr.operand)
             checked == [m EXCEPT !.typed =
                            @ /\ unary_operand_typed(instr.op, operand)]
         IN store(checked, instr.dest,
                  IF instr.op = "-" THEN PyInt(-operand.v)
                  ELSE [isbool |-> TRUE, v |-> xorq_1(operand.v)])

jump(m, code, label) ==
    LET target == label_index(code, label)
    IN IF target = None THEN fault(m, "undefined symbol")
       ELSE [m EXCEPT !.pc = target[1] + 1, !.steps = @ + 1]

\* lines 212-220: a constant condition is 1 when it is true and 0 otherwise
exec_if_false(m, code, instr) ==
    IF ~readable(m, instr.condition) THEN fault(m, "uninitialized")
    ELSE LET rax == IF _is_constant(instr.condition)
                    THEN (IF instr.condition = str_true THEN 1 ELSE 0)
                    ELSE m.mem[instr.condition].v
         IN IF rax = 0 THEN jump(m, code, instr.label)
            ELSE [m EXCEPT !.pc = @ + 1, !.steps = @ + 1]

exec_print(m, instr) ==
    IF ~readable(m, instr.value) THEN fault(m, "uninitialized")
    ELSE [m EXCEPT !.out = Append(@, load(m, instr.value).v),
                   !.pc = @ + 1, !.steps = @ + 1]

exec_step(m, code) ==
    LET instr == code[m.pc]
    IN CASE instr.kind = "TACAssign" -> exec_assign(m, instr)
         [] instr.kind = "TACBinaryOp" -> exec_binary_op(m, instr)
         [] instr.kind = "TACUnaryOp" -> exec_unary_op(m, instr)
         [] instr.kind = "TACGoto" -> jump(m, code, instr.label)
         [] instr.kind = "TACIfFalse" -> exec_if_false(m, code, instr)
         [] instr.kind = "TACPrint" -> exec_print(m, instr)
         [] OTHER -> [m EXCEPT !.pc = @ + 1, !.steps = @ + 1]

\* one turn of the run: a machine that has stopped stays as it is
exec_turn(m, code) ==
    IF m.fault # "none" \/ m.pc > Len(code) THEN m
    ELSE IF m.steps >= MaxSteps THEN fault(m, "cut off")
    ELSE exec_step(m, code)

\* n turns, as the first half of them followed by the rest
RECURSIVE exec_turns(_, _, _)
exec_turns(m, code, n) ==
    IF n = 1 THEN exec_turn(m, code)
    ELSE Only({exec_turns(half, code, n - (n \div 2)) :
               half \in {exec_turns(m, code, n \div 2)}})

\* the run until the machine stops: every turn before that executes one
\* instruction, so after MaxSteps + 1 turns it has stopped or is cut off
exec_loop(m, code) == exec_turns(m, code, MaxSteps + 1)

\* the run of the assembly of code, from main's prologue to its ret
Execute(code) ==
    exec_loop([pc |-> 1, mem |-> EmptyDict, out |-> <<>>, typed |-> TRUE,
               fault |-> "none", steps |-> 0], code)

\* no pass method has been called on its own
NoPasses ==
    /\ tac = <<>>
    /\ pass_log = <<>>

OptimizerConstructed ==
    /\ opt_pc = "idle"
    /\ instructions = <<>>
    /\ changed = FALSE
    /\ iteration = 0
    /\ old_length = 0
    /\ results = <<>>

(***************************************************************************)
(* Assembly generator (compiler/asmgen.py).  A line of assembly is a       *)
(* sequence of pieces: each fixed part of a format string is one piece,    *)
(* the "$" before a formatted value is a piece of its own, and what is     *)
(* formatted in (a name, a literal, str(offset)) goes in character by      *)
(* character.  The empty line is the empty sequence.                       *)
(***************************************************************************)
\* the characters of names and literals in the order of their code points
CodePoints ==
    <<"-", "0", "1", "2", "3", "4", "5", "6", "7", "8", "9",
      "A", "B", "C", "D", "E", "F", "G", "H", "I", "J", "K", "L", "M",
      "N", "O", "P", "Q", "R", "S", "T", "U", "V", "W", "X", "Y", "Z", "_",
      "a", "b", "c", "d", "e", "f", "g", "h", "i", "j", "k", "l", "m",
      "n", "o", "p", "q", "r", "s", "t", "u", "v", "w", "x", "y", "z">>

\* the place of c in CodePoints: ord(c) as far as comparisons go
ord(c) == CHOOSE i \in 1..Len(CodePoints) : CodePoints[i] = c

\* Python's a < b on str
RECURSIVE str_less(_, _)
str_less(a, b) ==
    IF b = <<>> THEN FALSE
    ELSE IF a = <<>> THEN TRUE
    ELSE IF Head(a) = Head(b) THEN str_less(Tail(a), Tail(b))
    ELSE ord(Head(a)) < ord(Head(b))

\* the mutation of line 97 that walks the names from the greatest down
RECURSIVE sorted_descending(_)
sorted_descending(S) ==
    IF S = {} THEN <<>>
    ELSE LET greatest == CHOOSE a \in S : \A b \in S \ {a} : str_less(b, a)
         IN <<greatest>> \o sorted_descending(S \ {greatest})

\* sorted(variables), line 97
RECURSIVE sorted(_)
sorted(S) ==
    IF S = {} THEN <<>>
    ELSE LET least == CHOOSE a \in S : \A b \in S \ {a} : str_less(a, b)
         IN <<least>> \o sorted(S \ {least})

\* AssemblyGenerator._is_constant
asm_is_constant(value) ==
    \/ value \in {str_true, str_false}
    \/ IntParses(value)

\* the fields of an AssemblyGenerator that generate reads and writes
AssemblyGenerator ==
    [asm_lines |-> <<>>, var_offsets |-> EmptyDict, current_offset |-> 0]

\* the mutation of lines 33-35 that starts a call with the offsets of the last
reset_lines_only(self) == [self EXCEPT !.asm_lines = <<>>]

\* lines 33-35
reset(self) == AssemblyGenerator

\* lines 38-50
Header ==
    << <<"    .section .data">>,
       <<"fmt_int:">>,
       <<"    .string \"%d\\n\"">>,
       <<>>,
       <<"    .section .text">>,
       <<"    .globl main">>,
       <<>>,
       <<"main:">>,
       <<"    # Function prologue">>,
       <<"    pushq   %rbp">>,
       <<"    movq    %rsp, %rbp">> >>

\* lines 60-69
Epilogue ==
    << <<>>,
       <<"    # Function epilogue">>,
       <<"    movq    $0, %rax">>,
       <<"    movq    %rbp, %rsp">>,
       <<"    popq    %rbp">>,
       <<"    ret">>,
       <<>>,
       <<"    .section .note.GNU-stack,\"\",%progbits">> >>

\* allocated without the destinations of the operations
allocated_declared(instrs) ==
    {instrs[i].name : i \in {j \in 1..Len(instrs) : instrs[j].kind = "TACVarDecl"}}
    \cup {instrs[i].dest : i \in {j \in 1..Len(instrs) :
              /\ instrs[j].kind = "TACAssign"
              /\ ~asm_is_constant(instrs[j].dest)}}

\* lines 75-87: the set variables
allocated(instrs) ==
    {instrs[i].name : i \in {j \in 1..Len(instrs) : instrs[j].kind = "TACVarDecl"}}
    \cup {instrs[i].dest : i \in {j \in 1..Len(instrs) :
              \/ instrs[j].kind \in {"TACBinaryOp", "TACUnaryOp"}
              \/ /\ instrs[j].kind = "TACAssign"
                 /\ ~asm_is_constant(instrs[j].dest)}}

\* lines 96-99: the loop over the sorted names, from the offset given
RECURSIVE assign_offsets(_, _, _)
assign_offsets(offsets, names, offset) ==
    IF names = <<>> THEN offsets
    ELSE assign_offsets(DictSet(offsets, Head(names), offset), Tail(names), offset - 8)

_allocate_variables(self, instrs) ==
    LET variables == allocated(instrs)
    IN IF variables # {}
       THEN [self EXCEPT
               !.asm_lines = @ \o << <<"    subq    ", "$">>
                                       \o str(Cardinality(variables) * 8)
                                       \o <<", %rsp">>,
                                     <<>> >>,
               !.var_offsets = assign_offsets(@, sorted(variables), -8)]
       ELSE self

\* f"{offset}(%rbp)" with offset = self.var_offsets.get(name, 0)
slot(offsets, name) ==
    str(IF name \in DOMAIN offsets THEN offsets[name] ELSE 0) \o <<"(%rbp)">>

\* f"    movq    ${value}, {register}"
movq_immediate(value, register) ==
    <<"    movq    ", "$">> \o value \o <<", ", register>>

\* f"    movq    {offset}(%rbp), {register}"
movq_load(offsets, name, register) ==
    <<"    movq    ">> \o slot(offsets, name) \o <<", ", register>>

\* f"    movq    %rax, {offset}(%rbp)"
movq_store(offsets, dest) == <<"    movq    %rax, ">> \o slot(offsets, dest)

\* lines 113, 130, 138, 227: the literal with true and false as 1 and 0
literal_value(value) ==
    IF value \notin {str_true, str_false} THEN value
    ELSE IF value = str_true THEN str_1 ELSE str_0

\* lines 111-118 and their like: a literal as an immediate, a name from its slot
load_operand(offsets, operand, register) ==
    IF asm_is_constant(operand)
    THEN movq_immediate(literal_value(operand), register)
    ELSE movq_load(offsets, operand, register)

\* lines 145-175: the lines of the operation itself
operation_lines(op) ==
    CASE op = "+" -> << <<"    addq    %rbx, %rax">> >>
      [] op = "-" -> << <<"    subq    %rbx, %rax">> >>
      [] op = "*" -> << <<"    imulq   %rbx, %rax">> >>
      [] op = "/" -> << <<"    cqo">>, <<"    idivq   %rbx">> >>
      [] op = "%" -> << <<"    cqo">>, <<"    idivq   %rbx">>, <<"    movq    %rdx, %rax">> >>
      [] op \in {"<", ">", "<=", ">=", "==", "!="} ->
            << <<"    cmpq    %rbx, %rax">>,
               <<"    ",
                 CASE op = "<" -> "setl" [] op = ">" -> "setg" [] op = "<=" -> "setle"
                   [] op = ">=" -> "setge" [] op = "==" -> "sete" [] op = "!=" -> "setne",
                 "  %al">>,
               <<"    movzbq  %al, %rax">> >>
      [] op = "&&" -> << <<"    andq    %rbx, %rax">> >>
      [] op = "||" -> << <<"    orq     %rbx, %rax">> >>
      [] OTHER -> <<>>

\* lines 107-122
asm_assign(offsets, instr) ==
    << <<"    # ">> \o instr.dest \o <<" = ">> \o instr.src,
       load_operand(offsets, instr.src, "%rax"),
       movq_store(offsets, instr.dest) >>

\* lines 124-179
asm_binary_op(offsets, instr) ==
    << <<"    # ">> \o instr.dest \o <<" = ">> \o instr.left
                    \o <<" ", instr.op, " ">> \o instr.right,
       load_operand(offsets, instr.left, "%rax"),
       load_operand(offsets, instr.right, "%rbx") >>
    \o operation_lines(instr.op)
    \o << movq_store(offsets, instr.dest) >>

\* lines 181-198: a literal operand goes into the immediate as it is written
asm_unary_op(offsets, instr) ==
    << <<"    # ">> \o instr.dest \o <<" = ", instr.op>> \o instr.operand,
       IF asm_is_constant(instr.operand)
       THEN movq_immediate(instr.operand, "%rax")
       ELSE movq_load(offsets, instr.operand, "%rax") >>
    \o (CASE instr.op = "-" -> << <<"    negq    %rax">> >>
          [] instr.op = "!" -> << <<"    xorq    $1, %rax">> >>
          [] OTHER -> <<>>)
    \o << movq_store(offsets, instr.dest) >>

\* lines 208-220: a literal condition is 1 when it is 'true' and 0 otherwise
asm_if_false(offsets, instr) ==
    << <<"    # if !">> \o instr.condition \o <<" goto ">> \o instr.label,
       IF asm_is_constant(instr.condition)
       THEN movq_immediate(IF instr.condition = str_true THEN str_1 ELSE str_0, "%rax")
       ELSE movq_load(offsets, instr.condition, "%rax"),
       <<"    cmpq    $0, %rax">>,
       <<"    je      ">> \o instr.label >>

\* lines 222-235
asm_print(offsets, instr) ==
    << <<"    # print ">> \o instr.value,
       load_operand(offsets, instr.value, "%rsi"),
       <<"    leaq    fmt_int(%rip), %rdi">>,
       <<"    movq    $0, %rax">>,
       <<"    call    printf@PLT">> >>

\* the lines _generate_instruction appends for instr, the empty one last
_generate_instruction(offsets, instr) ==
    (CASE instr.kind = "TACVarDecl" ->
            << <<"    # var ", instr.var_type, " ">> \o instr.name >>
       [] instr.kind = "TACAssign" -> asm_assign(offsets, instr)
       [] instr.kind = "TACBinaryOp" -> asm_binary_op(offsets, instr)
       [] instr.kind = "TACUnaryOp" -> asm_unary_op(offsets, instr)
       [] instr.kind = "TACLabel" -> << instr.label \o <<":">> >>
       [] instr.kind = "TACGoto" -> << <<"    jmp     ">> \o instr.label >>
       [] instr.kind = "TACIfFalse" -> asm_if_false(offsets, instr)
       [] instr.kind = "TACPrint" -> asm_print(offsets, instr)
       [] OTHER -> <<>>)
    \o << <<>> >>

\* lines 56-57: the loop over the instructions.  The lines of an instruction
\* depend on the offsets only, so the lines of a list are those of its first
\* half followed by those of its second half.
RECURSIVE generate_instructions(_, _)
generate_instructions(offsets, instrs) ==
    IF instrs = <<>> THEN <<>>
    ELSE IF Len(instrs) = 1 THEN _generate_instruction(offsets, Head(instrs))
    ELSE generate_instructions(offsets, SubSeq(instrs, 1, Len(instrs) \div 2))
         \o generate_instructions(offsets,
                SubSeq(instrs, (Len(instrs) \div 2) + 1, Len(instrs)))

\* "\n".join(lines) + "\n": of two or more lines, the text of the first half
\* followed by the text of the second half
RECURSIVE joined(_)
joined(lines) ==
    IF lines = <<>> THEN <<"\n">>
    ELSE IF Len(lines) = 1 THEN Head(lines) \o <<"\n">>
    ELSE joined(SubSeq(lines, 1, Len(lines) \div 2))
         \o joined(SubSeq(lines, (Len(lines) \div 2) + 1, Len(lines)))

\* generate on the generator self: [self, text], the generator after the
\* call and the text returned
generate(self, instrs) ==
    Only({ Only({ [self |-> [allocated_self EXCEPT !.asm_lines = lines],
                   text |-> joined(lines)] :
                  lines \in {allocated_self.asm_lines
                             \o generate_instructions(allocated_self.var_offsets, instrs)
                             \o Epilogue} }) :
           allocated_self \in {_allocate_variables(
                                  [reset(self) EXCEPT !.asm_lines = Header], instrs)} })

\* generator.generate(instrs) on the generator at hand
Generate(instrs) ==
    /\ \E call \in {generate([asm_lines |-> asm_lines, var_offsets |-> var_offsets,
                              current_offset |-> current_offset], instrs)} :
          /\ asm_lines' = call.self.asm_lines
          /\ var_offsets' = call.self.var_offsets
          /\ current_offset' = call.self.current_offset
          /\ generated' = Append(generated, [generator |-> generators,
                                             instructions |-> instrs,
                                             self |-> call.self,
                                             text |-> call.text])
    /\ UNCHANGED <<generators, notAsm>>

\* AssemblyGenerator(): from now on the calls are made on a fresh generator
NewAssemblyGenerator ==
    /\ asm_lines # <<>>
    /\ asm_lines' = AssemblyGenerator.asm_lines
    /\ var_offsets' = AssemblyGenerator.var_offsets
    /\ current_offset' = AssemblyGenerator.current_offset
    /\ generators' = generators + 1
    /\ UNCHANGED <<generated, notAsm>>

AssemblyGeneratorConstructed ==
    /\ asm_lines = AssemblyGenerator.asm_lines
    /\ var_offsets = AssemblyGenerator.var_offsets
    /\ current_offset = AssemblyGenerator.current_offset
    /\ generators = 1
    /\ generated = <<>>


(***************************************************************************)
(* Parser (compiler/parser.py).  Parser.current counts from 0 as in        *)
(* Python, so the current token is toks[current + 1].  A parsing method    *)
(* called at call depth `depth` on the parser state p = [current, log]     *)
(* gives [status, node, p, error]: status "ok" with the node built and the *)
(* state after it, "ParseError" with the error raised, or "RecursionError" *)
(* when the call stack of the interpreter is used up.  p.log is history:   *)
(* the calls of _statement that returned, each with current before and     *)
(* after it.  A message is a sequence of pieces: the fixed text as one     *)
(* piece, a formatted token value character by character.                  *)
(***************************************************************************)
\* The frames of the interpreter's call stack that a call of parse may use:
\* sys.getrecursionlimit(), less the frames of its caller.  Python's default
\* limit is 1000; the stack here is smaller, so that the texts that use it up
\* stay short.
recursion_limit == 45

ParseError(message, line, column) ==
    [message |-> message, line |-> line, column |-> column]

Ok(node, p) == [status |-> "ok", node |-> node, p |-> p, error |-> None]

Raise(message, token, p) ==
    [status |-> "ParseError", node |-> None, p |-> p,
     error |-> Some(ParseError(message, token.line, token.column))]

RecursionError(p) == [status |-> "RecursionError", node |-> None, p |-> p, error |-> None]

_peek(toks, p) == toks[p.current + 1]
_previous(toks, p) == toks[p.current]
_is_at_end(toks, p) == _peek(toks, p).type = "EOF"
_check(toks, p, token_type) ==
    IF _is_at_end(toks, p) THEN FALSE ELSE _peek(toks, p).type = token_type

\* _advance: the state after it
_advance_token(toks, p) ==
    IF ~_is_at_end(toks, p) THEN [p EXCEPT !.current = @ + 1] ELSE p

\* _match(*types) returns True exactly when this holds, and then advances
_match(toks, p, types) == \E token_type \in types : _check(toks, p, token_type)

\* _consume: "ok" with the token consumed as the node, or the ParseError
_consume(toks, p, token_type, message) ==
    IF _check(toks, p, token_type)
    THEN Ok(_peek(toks, p), _advance_token(toks, p))
    ELSE Raise(message, _peek(toks, p), p)

\* a parsing method at call depth `depth` calls _match or _consume, which
\* call _check, _is_at_end and _peek: four frames above its own
fits(depth) == depth + 4 <= recursion_limit

BinaryLevels_term_below ==
    << {"OR"}, {"AND"}, {"EQUAL", "NOT_EQUAL"},
       {"LESS_THAN", "GREATER_THAN", "LESS_EQUAL", "GREATER_EQUAL"},
       {"MULTIPLY", "DIVIDE", "MODULO"}, {"PLUS", "MINUS"} >>

\* the token types of the binary levels, from _logical_or to _factor
BinaryLevels ==
    << {"OR"}, {"AND"}, {"EQUAL", "NOT_EQUAL"},
       {"LESS_THAN", "GREATER_THAN", "LESS_EQUAL", "GREATER_EQUAL"},
       {"PLUS", "MINUS"}, {"MULTIPLY", "DIVIDE", "MODULO"} >>

\* op_str and op_map of the methods
op_str(token_type) ==
    CASE token_type = "OR" -> "||" [] token_type = "AND" -> "&&"
      [] token_type = "EQUAL" -> "==" [] token_type = "NOT_EQUAL" -> "!="
      [] token_type = "LESS_THAN" -> "<" [] token_type = "GREATER_THAN" -> ">"
      [] token_type = "LESS_EQUAL" -> "<=" [] token_type = "GREATER_EQUAL" -> ">="
      [] token_type = "PLUS" -> "+" [] token_type = "MINUS" -> "-"
      [] token_type = "MULTIPLY" -> "*" [] token_type = "DIVIDE" -> "/"
      [] token_type = "MODULO" -> "%" [] token_type = "NOT" -> "!"

RECURSIVE binary_level(_, _, _, _)
RECURSIVE binary_loop(_, _, _, _)
RECURSIVE _unary(_, _, _)
RECURSIVE _primary(_, _, _)

\* _expression
_expression(toks, p, depth) ==
    IF ~fits(depth) THEN RecursionError(p) ELSE binary_level(1, toks, p, depth + 1)

\* the operand of level: the next binary level, or _unary under _factor
operand_of(level, toks, p, depth) ==
    IF level < Len(BinaryLevels) THEN binary_level(level + 1, toks, p, depth + 1)
    ELSE _unary(toks, p, depth + 1)

\* _logical_or (level 1) .. _factor (level 6): expr = operand, then the loop
binary_level(level, toks, p, depth) ==
    IF ~fits(depth) THEN RecursionError(p)
    ELSE Only({ IF first.status # "ok" THEN first
                ELSE binary_loop(level, toks, first, depth) :
                first \in {operand_of(level, toks, p, depth)} })

\* `while self._match(...)` of a level, expr being the node of the result so far
binary_loop(level, toks, expr, depth) ==
    IF ~_match(toks, expr.p, BinaryLevels[level]) THEN expr
    ELSE Only({ IF right.status # "ok" THEN right
                ELSE binary_loop(level, toks,
                         Ok(BinaryOp(op_str(_peek(toks, expr.p).type), expr.node, right.node,
                                     _peek(toks, expr.p).line, _peek(toks, expr.p).column),
                            right.p),
                         depth) :
                right \in {operand_of(level, toks, _advance_token(toks, expr.p), depth)} })

_unary(toks, p, depth) ==
    IF ~fits(depth) THEN RecursionError(p)
    ELSE IF _match(toks, p, {"NOT", "MINUS"})
    THEN Only({ IF operand.status # "ok" THEN operand
                ELSE Ok(UnaryOp(op_str(_peek(toks, p).type), operand.node,
                                _peek(toks, p).line, _peek(toks, p).column),
                        operand.p) :
                operand \in {_unary(toks, _advance_token(toks, p), depth + 1)} })
    ELSE _primary(toks, p, depth + 1)

_primary(toks, p, depth) ==
    LET token == _peek(toks, p)
        after == _advance_token(toks, p)
    IN IF ~fits(depth) THEN RecursionError(p)
       ELSE IF _match(toks, p, {"TRUE"}) THEN Ok(BoolLiteral(TRUE, token.line, token.column), after)
       ELSE IF _match(toks, p, {"FALSE"}) THEN Ok(BoolLiteral(FALSE, token.line, token.column), after)
       ELSE IF _match(toks, p, {"NUMBER"})
       THEN Ok(IntLiteral(int(token.value), token.line, token.column), after)
       ELSE IF _match(toks, p, {"IDENTIFIER"})
       THEN Ok(Identifier(token.value, token.line, token.column), after)
       ELSE IF _match(toks, p, {"LPAREN"})
       THEN Only({ IF expr.status # "ok" THEN expr
                   ELSE Only({ IF closing.status # "ok" THEN closing
                               ELSE Ok(expr.node, closing.p) :
                               closing \in {_consume(toks, expr.p, "RPAREN",
                                               <<"Expected ')' after expression">>)} }) :
                   expr \in {_expression(toks, after, depth + 1)} })
       ELSE Raise(<<"Expected expression, got '">> \o token.value \o <<"'">>, token, p)

\* '(' expression ')' as _if_statement, _while_statement and _print_statement
\* parse it after their keyword: the node is the expression
parenthesized(toks, p, depth, open_message, close_message) ==
    Only({ IF opening.status # "ok" THEN opening
           ELSE Only({ IF expr.status # "ok" THEN expr
                       ELSE Only({ IF closing.status # "ok" THEN closing
                                   ELSE Ok(expr.node, closing.p) :
                                   closing \in {_consume(toks, expr.p, "RPAREN",
                                       <<close_message>>)} }) :
                       expr \in {_expression(toks, opening.p, depth + 1)} }) :
           opening \in {_consume(toks, p, "LPAREN", <<open_message>>)} })

_var_declaration(toks, p, depth) ==
    LET type_token == _previous(toks, p)
    IN Only({ IF name_token.status # "ok" THEN name_token
              ELSE Only({ IF semicolon.status # "ok" THEN semicolon
                          ELSE Ok(VarDeclaration(type_token.value, name_token.node.value,
                                                 type_token.line, type_token.column),
                                  semicolon.p) :
                          semicolon \in {_consume(toks, name_token.p, "SEMICOLON",
                                            <<"Expected ';' after variable declaration">>)} }) :
              name_token \in {_consume(toks, p, "IDENTIFIER", <<"Expected variable name">>)} })

_assignment(toks, p, depth) ==
    Only({ IF name_token.status # "ok" THEN name_token
           ELSE Only({ IF assign.status # "ok" THEN assign
                       ELSE Only({ IF expression.status # "ok" THEN expression
                                   ELSE Only({ IF semicolon.status # "ok" THEN semicolon
                                               ELSE Ok(Assignment(name_token.node.value,
                                                           expression.node,
                                                           name_token.node.line,
                                                           name_token.node.column),
                                                       semicolon.p) :
                                               semicolon \in {_consume(toks, expression.p,
                                                   "SEMICOLON",
                                                   <<"Expected ';' after assignment">>)} }) :
                                   expression \in {_expression(toks, assign.p, depth + 1)} }) :
                       assign \in {_consume(toks, name_token.p, "ASSIGN",
                                      <<"Expected '=' in assignment">>)} }) :
           name_token \in {_consume(toks, p, "IDENTIFIER", <<"Expected variable name">>)} })

_print_statement(toks, p, depth) ==
    LET print_token == _previous(toks, p)
    IN Only({ IF expression.status # "ok" THEN expression
              ELSE Only({ IF semicolon.status # "ok" THEN semicolon
                          ELSE Ok(PrintStatement(expression.node, print_token.line,
                                                 print_token.column),
                                  semicolon.p) :
                          semicolon \in {_consume(toks, expression.p, "SEMICOLON",
                                            <<"Expected ';' after print statement">>)} }) :
              expression \in {parenthesized(toks, p, depth, "Expected '(' after 'print'",
                                            "Expected ')' after print expression")} })

RECURSIVE _statement(_, _, _)
RECURSIVE block_loop(_, _, _, _)

\* `while not self._check(RBRACE) and not self._is_at_end()` of _block, with
\* the statements appended so far: the node is the list at the end of the loop
block_loop(toks, p, statements, depth) ==
    IF _check(toks, p, "RBRACE") \/ _is_at_end(toks, p) THEN Ok(statements, p)
    ELSE Only({ IF stmt.status # "ok" THEN stmt
                ELSE block_loop(toks, stmt.p, Append(statements, stmt.node), depth) :
                stmt \in {_statement(toks, p, depth + 1)} })

_block(toks, p, depth) ==
    IF ~fits(depth) THEN RecursionError(p)
    ELSE Only({ IF open_brace.status # "ok" THEN open_brace
                ELSE Only({ IF statements.status # "ok" THEN statements
                            ELSE Only({ IF closing.status # "ok" THEN closing
                                        ELSE Ok(Block(statements.node, open_brace.node.line,
                                                      open_brace.node.column),
                                                closing.p) :
                                        closing \in {_consume(toks, statements.p, "RBRACE",
                                                        <<"Expected '}' after block">>)} }) :
                            statements \in {block_loop(toks, open_brace.p, <<>>, depth)} }) :
                open_brace \in {_consume(toks, p, "LBRACE", <<"Expected '{'">>)} })

\* _block returns a Block, so the isinstance tests of _if_statement hold;
\* without `else` the else_block of the node is the empty list
_if_statement(toks, p, depth) ==
    LET if_token == _previous(toks, p)
    IN Only({ IF condition.status # "ok" THEN condition
              ELSE Only({ IF then_block.status # "ok" THEN then_block
                          ELSE IF ~_match(toks, then_block.p, {"ELSE"})
                          THEN Ok(IfStatement(condition.node, then_block.node.statements, <<>>,
                                              if_token.line, if_token.column),
                                  then_block.p)
                          ELSE Only({ IF else_block.status # "ok" THEN else_block
                                      ELSE Ok(IfStatement(condition.node,
                                                  then_block.node.statements,
                                                  else_block.node.statements,
                                                  if_token.line, if_token.column),
                                              else_block.p) :
                                      else_block \in {_block(toks,
                                          _advance_token(toks, then_block.p), depth + 1)} }) :
                          then_block \in {_block(toks, condition.p, depth + 1)} }) :
              condition \in {parenthesized(toks, p, depth, "Expected '(' after 'if'",
                                           "Expected ')' after if condition")} })

_while_statement(toks, p, depth) ==
    LET while_token == _previous(toks, p)
    IN Only({ IF condition.status # "ok" THEN condition
              ELSE Only({ IF body.status # "ok" THEN body
                          ELSE Ok(WhileStatement(condition.node, body.node.statements,
                                                 while_token.line, while_token.column),
                                  body.p) :
                          body \in {_block(toks, condition.p, depth + 1)} }) :
              condition \in {parenthesized(toks, p, depth, "Expected '(' after 'while'",
                                           "Expected ')' after while condition")} })

\* _statement; a call that returns is added to the log
_statement(toks, p, depth) ==
    IF ~fits(depth) THEN RecursionError(p)
    ELSE Only({ IF stmt.status # "ok" THEN stmt
                ELSE Ok(stmt.node,
                        [stmt.p EXCEPT !.log =
                            Append(@, [from |-> p.current, to |-> stmt.p.current])]) :
                stmt \in {
                    IF _match(toks, p, {"INT", "BOOL"})
                    THEN _var_declaration(toks, _advance_token(toks, p), depth + 1)
                    ELSE IF _match(toks, p, {"IF"})
                    THEN _if_statement(toks, _advance_token(toks, p), depth + 1)
                    ELSE IF _match(toks, p, {"WHILE"})
                    THEN _while_statement(toks, _advance_token(toks, p), depth + 1)
                    ELSE IF _match(toks, p, {"PRINT"})
                    THEN _print_statement(toks, _advance_token(toks, p), depth + 1)
                    ELSE IF _check(toks, p, "LBRACE") THEN _block(toks, p, depth + 1)
                    ELSE IF _check(toks, p, "IDENTIFIER") THEN _assignment(toks, p, depth + 1)
                    ELSE Raise(<<"Unexpected token '">> \o _peek(toks, p).value \o <<"'">>,
                               _peek(toks, p), p) } })

\* `while not self._is_at_end()` of parse, with the statements appended so far
RECURSIVE parse_loop(_, _, _, _)
parse_loop(toks, p, statements, depth) ==
    IF _is_at_end(toks, p) THEN Ok(statements, p)
    ELSE Only({ IF stmt.status # "ok" THEN stmt
                ELSE parse_loop(toks, stmt.p, Append(statements, stmt.node), depth) :
                stmt \in {_statement(toks, p, depth + 1)} })

\* Parser(tokens).parse(): the node is Program.statements
parse(toks) == parse_loop(toks, [current |-> 0, log |-> <<>>], <<>>, 1)

Parse ==
    /\ parse_pc = "parse"
    /\ \E result \in {parse(parser_tokens)} :
         /\ current' = result.p.current
         /\ statement_calls' = result.p.log
         /\ parse_pc' = CASE result.status = "ok" -> "returned"
                          [] result.status = "ParseError" -> "raised"
                          [] OTHER -> "RecursionError"
         /\ parsed' = IF result.status = "ok" THEN Some(result.node) ELSE None
         /\ parse_error' = result.error
    /\ UNCHANGED <<parser_tokens, notParse>>

\* Parser(tokens) as Parser.__init__ leaves it
ParserConstructed ==
    /\ parser_tokens = <<Token("EOF", <<>>, 1, 1)>>
    /\ current = 0
    /\ parse_pc = "parse"
    /\ parsed = None
    /\ parse_error = None
    /\ statement_calls = <<>>

(***************************************************************************)
(* Input programs: the ASTs the parser builds for bounded source texts.    *)
(* A statement at nesting level d of top-level statement k sits on its own *)
(* line, so every node has a distinct 1-based (line, column).              *)
(***************************************************************************)
\* a statement without a body, chosen by shape, at (l, c)
SimpleShapes == 1..6
SimpleStmt(shape, l, c) ==
    CASE shape = 1 -> VarDeclaration("int", nx, l, c)
      [] shape = 2 -> VarDeclaration("bool", nx, l, c)
      [] shape = 3 -> VarDeclaration("int", ny, l, c)
      [] shape = 4 -> PrintStatement(Identifier(nx, l, c + 6), l, c)
      [] shape = 5 -> PrintStatement(Identifier(ny, l, c + 6), l, c)
      [] shape = 6 -> Assignment(nx, IntLiteral(1, l, c + 4), l, c)
SimpleStmts(l, c) == {SimpleStmt(shape, l, c) : shape \in SimpleShapes}

\* statement lists of at most n simple statements, on the lines after l
Bodies(l, c, n) ==
    UNION {{[j \in 1..m |-> SimpleStmt(shapes[j], l + j, c)] :
                shapes \in [1..m -> SimpleShapes]} : m \in 0..n}

Optional(S) == {<<>>} \cup {<<s>> : s \in S}

\* statements with a body: block, while, if/else, and a block inside a while
CompoundStmts(l, c) ==
    {Block(b, l, c) : b \in Bodies(l, c + 4, MaxBody)}
    \cup {WhileStatement(BoolLiteral(TRUE, l, c + 7), b, l, c) :
            b \in Bodies(l, c + 4, MaxBody)}
    \cup {IfStatement(BoolLiteral(TRUE, l, c + 4), t, e, l, c) :
            t \in Bodies(l, c + 4, 1), e \in Bodies(l + 4, c + 4, 1)}
    \cup {WhileStatement(BoolLiteral(TRUE, l, c + 7),
                         a \o <<Block(<<s>>, l + 2, c + 4)>> \o b, l, c) :
            a \in Optional(SimpleStmts(l + 1, c + 4)),
            s \in SimpleStmts(l + 3, c + 8),
            b \in Optional(SimpleStmts(l + 4, c + 4))}

ScopePrograms ==
    {a \o <<s>> \o b : a \in Optional(SimpleStmts(10, 1)),
                       s \in CompoundStmts(20, 1),
                       b \in Optional(SimpleStmts(30, 1))}

\* expressions of depth at most 2 over the literals 1 and true and the names
Leaves(l, c) ==
    {IntLiteral(1, l, c), BoolLiteral(TRUE, l, c), Identifier(nx, l, c)}
Depth1(l, c) ==
    {BinaryOp(op, a, b, l, c + 1) :
        op \in BinaryOps, a \in Leaves(l, c), b \in Leaves(l, c + 2)}
    \cup {UnaryOp(op, a, l, c) : op \in UnaryOps, a \in Leaves(l, c + 1)}
Depth2(l, c) ==
    {BinaryOp(op, a, b, l, c + 3) :
        op \in BinaryOps, a \in Depth1(l, c), b \in Leaves(l, c + 4)}
    \cup {BinaryOp(op, a, b, l, c + 1) :
        op \in {"+", "<", "==", "&&"}, a \in Leaves(l, c),
        b \in {UnaryOp(o, e, l, c + 2) : o \in UnaryOps, e \in Leaves(l, c + 3)}}
    \cup {UnaryOp(op, a, l, c) : op \in UnaryOps, a \in Depth1(l, c + 1)}
Expressions(l, c) == Leaves(l, c) \cup Depth1(l, c) \cup Depth2(l, c)

\* a statement holding expression e
ExprStmts(e, l, c) ==
    {PrintStatement(e, l, c),
     Assignment(nx, e, l, c),
     Assignment(ny, e, l, c),
     IfStatement(e, <<>>, <<>>, l, c),
     WhileStatement(e, <<>>, l, c)}

\* [int x; | bool x;] bool y; <statement with an expression>
ExprPrograms ==
    {d \o <<VarDeclaration("bool", ny, 2, 1), s>> :
        d \in Optional({VarDeclaration(t, nx, 1, 1) : t \in Types}),
        s \in UNION {ExprStmts(e, 3, 1) : e \in Expressions(3, 7)}}

SemPrograms == ScopePrograms \cup ExprPrograms

SemConstructed ==
    /\ sem_pc = "constructed"
    /\ sem_stack = <<>>
    /\ current_scope = <<EmptySymbols>>
    /\ errors = <<>>
    /\ raised = None
    /\ expr_type = "None"

SemInit ==
    /\ ast \in SemPrograms
    /\ NoSource
    /\ SemConstructed
    /\ ir_pc = "none"
    /\ ir_instructions = <<>>
    /\ OptimizerConstructed
    /\ AssemblyGeneratorConstructed
    /\ NoPasses
    /\ ParserConstructed

SemSpec == SemInit /\ [][SemNext]_vars

(***************************************************************************)
(* The optimizer on its own: optimize_tac called on a TAC list, and called *)
(* again on what it returned.                                              *)
(***************************************************************************)
MaxTac == 3      \* the longest list drawn from TacPool
MaxChain == 11   \* the longest chain of dependent multiplications
MaxCalls == 2    \* calls of optimize in a row

nt0 == <<"t", "0">>
nt1 == <<"t", "1">>
nL0 == <<"L", "0">>

TacPool ==
    { TACAssign(nt0, str_1),
      TACAssign(nt0, str(-7)),
      TACAssign(nt1, nt0),
      TACAssign(nt1, nt1),
      TACAssign(nx, nt1),
      TACBinaryOp(nt1, nx, "+", str_0),
      TACBinaryOp(nt1, nt0, "*", str_2),
      TACBinaryOp(nt1, nt0, "/", str_2),
      TACUnaryOp(nt0, "-", nt1),
      TACPrint(nt1),
      TACPrint(nx),
      TACGoto(nL0),
      TACLabel(nL0),
      TACIfFalse(nt0, nL0),
      TACVarDecl("int", nx) }

RECURSIVE TacLists(_)
TacLists(n) ==
    IF n = 0 THEN {<<>>}
    ELSE TacLists(n - 1) \cup
         {Append(l, i) : l \in {m \in TacLists(n - 1) : Len(m) = n - 1}, i \in TacPool}

\* t0 = 1; t1 = y * 0; t2 = t1 * x; ...; tn = t(n-1) * x; print tn
Chain(n) ==
    <<TACAssign(nt0, str_1), TACBinaryOp(nt1, ny, "*", str_0)>>
    \o [i \in 1..(n - 1) |->
           TACBinaryOp(<<"t">> \o str(i + 1), <<"t">> \o str(i), "*", nx)]
    \o <<TACPrint(<<"t">> \o str(n))>>

\* divisions and remainders of constants, by zero and by other divisors,
\* with what reads their results
DivisionPool ==
    { TACAssign(nt0, str_0),
      TACAssign(nt0, str(-7)),
      TACBinaryOp(nt1, nt0, "/", str_2),
      TACBinaryOp(nt1, str(7), "%", nt0),
      TACBinaryOp(nt1, nt1, "/", nt0),
      TACBinaryOp(nt1, nx, "%", str_0),
      TACBinaryOp(nt0, nt1, "+", str_1),
      TACPrint(nt1) }

\* t1 = 2, then three instructions of the pool
DivisionLists ==
    {<<TACAssign(nt1, str_2), a, b, c>> :
        a \in DivisionPool, b \in DivisionPool, c \in DivisionPool}

OptInputs == TacLists(MaxTac) \cup {Chain(n) : n \in 1..MaxChain} \cup DivisionLists

\* a further call of optimize, on the list the last call returned
OptimizeAgain ==
    /\ opt_pc = "returned"
    /\ Len(results) < MaxCalls
    /\ opt_pc' = "running"
    /\ instructions' = results[Len(results)]
    /\ changed' = TRUE
    /\ iteration' = 0
    /\ UNCHANGED <<old_length, results, notOpt>>

OptInit ==
    /\ ast = <<>>
    /\ NoSource
    /\ SemConstructed
    /\ ir_pc = "generated"
    /\ ir_instructions \in OptInputs
    /\ OptimizerConstructed
    /\ AssemblyGeneratorConstructed
    /\ NoPasses
    /\ ParserConstructed

OptNext ==
    \/ OptimizeCall
    \/ OptimizeCycle
    \/ OptimizeReturn
    \/ OptimizeAgain

OptSpec == OptInit /\ [][OptNext]_vars

\* a call of optimize that can take a step takes it
OptLive == OptSpec /\ WF_vars(OptNext)

(***************************************************************************)
(* The passes on their own: a pass method of an Optimizer called on a TAC  *)
(* list, and a pass called on what the pass before it returned.            *)
(***************************************************************************)
MaxPasses == 2   \* calls of pass methods in a row

\* the call of a pass method on tac: what it returns is the next tac
CallPass(name, returned, hangs) ==
    /\ Len(pass_log) < MaxPasses
    /\ \A k \in 1..Len(pass_log) : ~pass_log[k].hangs
    /\ pass_log' = Append(pass_log, [pass |-> name, given |-> tac,
                                     returned |-> returned, hangs |-> hangs])
    /\ tac' = IF hangs THEN tac ELSE returned
    /\ UNCHANGED notPass

ConstantFolding ==
    \E returned \in {constant_folding(tac)} :
        CallPass("constant_folding", returned, FALSE)

CopyPropagation ==
    \E copied \in {copy_propagation(tac)} :
        CallPass("copy_propagation", copied.optimized, copied.hangs)

AlgebraicSimplification ==
    \E returned \in {algebraic_simplification(tac)} :
        CallPass("algebraic_simplification", returned, FALSE)

StrengthReduction ==
    \E returned \in {strength_reduction(tac)} :
        CallPass("strength_reduction", returned, FALSE)

DeadCodeElimination ==
    \E dce \in {dead_code_elimination(tac)} :
        CallPass("dead_code_elimination", dce.optimized, dce.hangs)

\* one binary operation on names and literals, with what is around it
BinaryOperands == {nx, nt0, str_0, str_1, str_2, <<"4">>, str_true, str_false}

BinaryLists ==
    {<<TACVarDecl("int", nx), TACBinaryOp(nt1, left, op, right), TACPrint(nt1)>> :
        left \in BinaryOperands, right \in BinaryOperands, op \in BinaryOps}

\* an operation with the unit on its right among operations that have the
\* unit or the zero where it is none
UnitList ==
    <<TACVarDecl("int", nx),
      TACBinaryOp(nt1, nx, "*", str_1),
      TACBinaryOp(nt1, str_0, "-", nx),
      TACBinaryOp(nt1, str_0, "/", nx),
      TACBinaryOp(nt1, nx, "/", str_0),
      TACBinaryOp(nt1, nx, "%", str_1),
      TACPrint(nt1)>>

\* the doublings next to a multiplication by 4 and a division by 2
DoubleList ==
    <<TACVarDecl("int", nx),
      TACBinaryOp(nt0, nx, "*", str_2),
      TACBinaryOp(nt1, str_2, "*", nt0),
      TACBinaryOp(nt1, nx, "*", <<"4">>),
      TACBinaryOp(nt1, nx, "/", str_2),
      TACPrint(nt1)>>

MaxDead == 3   \* instructions of a list made for dead_code_elimination

nL1 == <<"L", "1">>

\* jumps, a label, definitions of temps and of x, and uses of them
DeadPool ==
    {TACGoto(nL0),
     TACIfFalse(nt0, nL0),
     TACLabel(nL0),
     TACAssign(nt0, str_1),
     TACBinaryOp(nt1, nt0, "+", nx),
     TACUnaryOp(nt0, "-", nt0),
     TACAssign(nx, nt1),
     TACPrint(nt1)}

\* the lists of MaxDead instructions in which no label is defined twice
DeadLists ==
    {instrs \in [1..MaxDead -> DeadPool] :
        Cardinality({i \in 1..MaxDead : instrs[i].kind = "TACLabel"}) <= 1}

\* a chain of temps that only an unreachable print uses
DeadList ==
    <<TACAssign(nt0, str_1),
      TACBinaryOp(nt1, nt0, "+", nx),
      TACIfFalse(nx, nL0),
      TACGoto(nL1),
      TACPrint(nt1),
      TACLabel(nL0),
      TACAssign(nx, str_2),
      TACLabel(nL1),
      TACPrint(nx)>>

\* a temp that holds x while x is assigned again, and is printed after it
CopyList ==
    <<TACVarDecl("int", nx),
      TACAssign(nx, str_1),
      TACAssign(nt0, nx),
      TACAssign(nx, str_2),
      TACPrint(nt0)>>

PassInputs ==
    BinaryLists \cup DeadLists \cup {<<>>, UnitList, DoubleList, DeadList, CopyList}

PassInit ==
    /\ tac \in PassInputs
    /\ pass_log = <<>>
    /\ ast = <<>>
    /\ NoSource
    /\ SemConstructed
    /\ ir_pc = "none"
    /\ ir_instructions = <<>>
    /\ OptimizerConstructed
    /\ AssemblyGeneratorConstructed
    /\ ParserConstructed

PassNext ==
    \/ ConstantFolding
    \/ CopyPropagation
    \/ AlgebraicSimplification
    \/ StrengthReduction
    \/ DeadCodeElimination

PassSpec == PassInit /\ [][PassNext]_vars

(***************************************************************************)
(* The lexer on its own: tokenize called on a source text.                 *)
(***************************************************************************)
MaxSource == 4   \* the longest text drawn from SourceChars

SourceChars == {"/", "*", " ", "\n", "a", "1", "=", "|", "@", "U+00E9", "U+0663"}

RECURSIVE Texts(_)
Texts(n) ==
    IF n = 0 THEN {<<>>}
    ELSE Texts(n - 1) \cup
         {Append(t, c) : t \in {u \in Texts(n - 1) : Len(u) = n - 1}, c \in SourceChars}

\* longer texts: keywords, a comment over two lines, an error on a later line
LongSources ==
    { <<"i", "f", "(", "a", "<", "=", "1", ")">>,
      <<"/", "*", "a", "\n", "*", "*", "/", " ", "i", "n", "t">>,
      <<"a", "/", "/", "@", "\n", "\t", "1", "2", "\r", "\n", " ", "@", "a">>,
      <<"a", "&", "&", "b", "&", "c">>,
      <<"/", "*", "/", " ", "/", "*", " ", "*", "/">>,
      <<"i", "f", "a", " ", "i", "f", "1", "<", "=", "=", "i", "n", "t">>,
      <<"w", "h", "i", "l", "e", "_", "!", "=", "!", "t", "r", "u", "e", ">", "=", ">">>,
      <<"a", "=", "U+0663", "1", ";", "/", "/", "U+00E9", "\n", "/", "*", "U+00E9", "*", "/">> }

LexInit ==
    /\ source_code \in Texts(MaxSource) \cup LongSources
    /\ LexerConstructed
    /\ ast = <<>>
    /\ SemConstructed
    /\ ir_pc = "none"
    /\ ir_instructions = <<>>
    /\ OptimizerConstructed
    /\ AssemblyGeneratorConstructed
    /\ NoPasses
    /\ ParserConstructed

LexNext ==
    \/ NextToken
    \/ TokenizeReturn

LexSpec == LexInit /\ [][LexNext]_vars

\* tokenize, once called, keeps running
LexLive == LexSpec /\ WF_vars(LexNext)

(***************************************************************************)
(* The assembly generator on its own: generate called on TAC lists, on the *)
(* same generator or on a fresh one.                                       *)
(***************************************************************************)
MaxGenerate == 3   \* calls of generate in a row

nt2 == <<"t", "2">>
nt10 == <<"t", "1", "0">>

\* every kind of instruction, its source operands literals and names
AsmPool ==
    { TACVarDecl("int", nx),
      TACAssign(nx, str(5)),
      TACAssign(nt0, str_true),
      TACAssign(ny, nx),
      TACAssign(str(5), nx),
      TACBinaryOp(nt1, nx, "+", str_1),
      TACBinaryOp(nt10, str_false, "||", ny),
      TACBinaryOp(nt2, str(-7), "%", str_2),
      TACBinaryOp(nt0, nx, "<=", ny),
      TACUnaryOp(nt0, "!", str_true),
      TACUnaryOp(nt1, "-", str(5)),
      TACUnaryOp(nt2, "-", nx),
      TACLabel(nL0),
      TACGoto(nL0),
      TACIfFalse(nt0, nL0),
      TACIfFalse(str_false, nL0),
      TACIfFalse(str_1, nL0),
      TACPrint(str(5)),
      TACPrint(str_true),
      TACPrint(nx) }

AsmPrograms ==
    { <<>>,
      <<TACVarDecl("int", nx), TACAssign(nx, str(5)), TACBinaryOp(nt10, nx, "+", str_1),
        TACBinaryOp(nt2, nt10, "*", str_2), TACAssign(ny, nt2), TACPrint(ny)>>,
      <<TACVarDecl("bool", ny), TACAssign(ny, str_true), TACUnaryOp(nt0, "!", ny),
        TACIfFalse(nt0, nL0), TACPrint(str_1), TACGoto(nL0), TACLabel(nL0)>>,
      <<TACPrint(ny), TACPrint(nx)>> }

AsmInputs == {<<i>> : i \in AsmPool} \cup AsmPrograms

\* the lists a later call is made on: one passed before, or one of these
AsmRepeats == {<<TACPrint(nx)>>, <<TACAssign(ny, nx)>>}

\* a call of generate on the generator at hand
GenerateCall ==
    /\ Len(generated) < MaxGenerate
    /\ \E instrs \in IF generated = <<>> THEN AsmInputs
                     ELSE AsmRepeats \cup {generated[i].instructions :
                                              i \in 1..Len(generated)} :
          Generate(instrs)

AsmInit ==
    /\ ast = <<>>
    /\ NoSource
    /\ SemConstructed
    /\ ir_pc = "none"
    /\ ir_instructions = <<>>
    /\ OptimizerConstructed
    /\ AssemblyGeneratorConstructed
    /\ NoPasses
    /\ ParserConstructed

AsmNext ==
    \/ GenerateCall
    \/ NewAssemblyGenerator

AsmSpec == AsmInit /\ [][AsmNext]_vars

(***************************************************************************)
(* ParseSpec: one call of parse on a token list as the lexer builds it,    *)
(* on one line with one space between tokens, the EOF token last.          *)
(***************************************************************************)
\* the text of a token of each type used in the inputs
lexeme(type) ==
    CASE type = "INT" -> <<"i", "n", "t">> [] type = "BOOL" -> <<"b", "o", "o", "l">>
      [] type = "IF" -> <<"i", "f">> [] type = "ELSE" -> <<"e", "l", "s", "e">>
      [] type = "WHILE" -> <<"w", "h", "i", "l", "e">>
      [] type = "PRINT" -> <<"p", "r", "i", "n", "t">>
      [] type = "TRUE" -> str_true [] type = "FALSE" -> str_false
      [] type = "IDENTIFIER" -> <<"a">> [] type = "NUMBER" -> <<"1", "2">>
      [] type = "ASSIGN" -> <<"=">> [] type = "SEMICOLON" -> <<";">>
      [] type = "LPAREN" -> <<"(">> [] type = "RPAREN" -> <<")">>
      [] type = "LBRACE" -> <<"{">> [] type = "RBRACE" -> <<"}">>
      [] type = "OR" -> <<"|", "|">> [] type = "AND" -> <<"&", "&">>
      [] type = "EQUAL" -> <<"=", "=">> [] type = "NOT_EQUAL" -> <<"!", "=">>
      [] type = "LESS_EQUAL" -> <<"<", "=">> [] type = "GREATER_EQUAL" -> <<">", "=">>
      [] type = "EOF" -> <<>>
      [] OTHER -> <<op_str(type)>>

\* the column after the tokens of these types, each followed by a space
RECURSIVE column_after(_)
column_after(types) ==
    IF types = <<>> THEN 1
    ELSE column_after(SubSeq(types, 1, Len(types) - 1)) + Len(lexeme(types[Len(types)])) + 1

\* the token list of a text with tokens of these types, then EOF
TokensOf(types) ==
    [i \in 1..(Len(types) + 1) |->
        IF i <= Len(types)
        THEN Token(types[i], lexeme(types[i]), 1, column_after(SubSeq(types, 1, i - 1)))
        ELSE Token("EOF", <<>>, 1, column_after(types))]

\* expressions: every text of at most MaxExpr tokens made of operands, prefix
\* operators, infix operators and parentheses
MaxExpr == 7
ExprOperands == {"IDENTIFIER"}
ExprPrefix == {"NOT", "MINUS"}
ExprInfix == {"OR", "AND", "EQUAL", "NOT_EQUAL", "LESS_THAN", "PLUS", "MINUS", "MULTIPLY"}

RECURSIVE ExprTexts(_)
ExprTexts(n) ==
    IF n < 1 THEN {}
    ELSE IF n = 1 THEN {<<t>> : t \in ExprOperands}
    ELSE {<<o>> \o e : o \in ExprPrefix, e \in ExprTexts(n - 1)}
         \cup {<<"LPAREN">> \o e \o <<"RPAREN">> : e \in ExprTexts(n - 2)}
         \cup UNION { {l \o <<o>> \o r : l \in ExprTexts(k), o \in ExprInfix,
                                         r \in ExprTexts(n - 1 - k)} :
                      k \in 1..(n - 2) }

\* `a = <expression> ;`, the expression one of these or a literal
ExprStatements ==
    {<<"IDENTIFIER", "ASSIGN">> \o e \o <<"SEMICOLON">> :
        e \in UNION {ExprTexts(n) : n \in 1..MaxExpr}
              \cup {<<"NUMBER">>, <<"TRUE">>, <<"FALSE">>, <<"MINUS", "NUMBER">>,
                    <<"NOT", "LPAREN", "FALSE", "RPAREN">>}}

\* every text of at most MaxTokens tokens
MaxTokens == 3
TokenTypes ==
    {"INT", "IDENTIFIER", "ASSIGN", "SEMICOLON", "NUMBER", "IF", "ELSE", "WHILE", "PRINT",
     "LPAREN", "RPAREN", "LBRACE", "RBRACE", "PLUS", "NOT"}
ShortTexts == UNION {[1..n -> TokenTypes] : n \in 0..MaxTokens}

\* programs with every kind of statement, their prefixes, and the texts one
\* token away from them
SeedTexts ==
    { <<"IF", "LPAREN", "IDENTIFIER", "RPAREN", "LBRACE", "IDENTIFIER", "ASSIGN", "NUMBER",
        "SEMICOLON", "RBRACE", "ELSE", "LBRACE", "PRINT", "LPAREN", "IDENTIFIER", "RPAREN",
        "SEMICOLON", "RBRACE">>,
      <<"WHILE", "LPAREN", "NOT", "IDENTIFIER", "RPAREN", "LBRACE", "INT", "IDENTIFIER",
        "SEMICOLON", "LBRACE", "RBRACE", "RBRACE">>,
      <<"IDENTIFIER", "ASSIGN", "LPAREN", "NUMBER", "PLUS", "IDENTIFIER", "RPAREN",
        "SEMICOLON", "IF", "LPAREN", "NUMBER", "RPAREN", "LBRACE", "RBRACE">> }

Prefixes(text) == {SubSeq(text, 1, n) : n \in 0..Len(text)}
Deletions(text) ==
    {SubSeq(text, 1, i - 1) \o SubSeq(text, i + 1, Len(text)) : i \in 1..Len(text)}
Substitutions(text) == {[text EXCEPT ![i] = t] : i \in 1..Len(text), t \in TokenTypes}
Insertions(text) ==
    {SubSeq(text, 1, i) \o <<t>> \o SubSeq(text, i + 1, Len(text)) :
        i \in 0..Len(text), t \in TokenTypes}

NearTexts ==
    UNION {Prefixes(s) \cup Deletions(s) \cup Substitutions(s) \cup Insertions(s) :
           s \in SeedTexts}

\* `a = ( ... ( 12 ) ... ) ;` with n pairs of parentheses
RECURSIVE Parens(_, _)
Parens(type, n) == IF n = 0 THEN <<>> ELSE <<type>> \o Parens(type, n - 1)
Nested(n) ==
    <<"IDENTIFIER", "ASSIGN">> \o Parens("LPAREN", n) \o <<"NUMBER">>
        \o Parens("RPAREN", n) \o <<"SEMICOLON">>

\* the nesting depths around the one at which the call stack is used up: the
\* statement is at depth 3, each pair of parentheses takes nine frames more
DeepTexts == {Nested(n) : n \in ((recursion_limit \div 9) - 2)..(recursion_limit \div 9)}

ParseTexts == ExprStatements \cup ShortTexts \cup NearTexts \cup DeepTexts

ParseInit ==
    /\ \E text \in ParseTexts : parser_tokens = TokensOf(text)
    /\ current = 0
    /\ parse_pc = "parse"
    /\ parsed = None
    /\ parse_error = None
    /\ statement_calls = <<>>
    /\ ast = <<>>
    /\ NoSource
    /\ SemConstructed
    /\ ir_pc = "none"
    /\ ir_instructions = <<>>
    /\ OptimizerConstructed
    /\ AssemblyGeneratorConstructed
    /\ NoPasses

ParseNext == Parse

ParseSpec == ParseInit /\ [][ParseNext]_vars

(***************************************************************************)
(* The compiler's phases in a row (minic.py, MiniCCompiler.compile): the   *)
(* semantic analysis of a parsed program, IR generation, optimization.     *)
(* The programs assign every variable before they read it.                 *)
(***************************************************************************)
MaxCount == 2    \* the largest start value of the counting loop

Lit(n, c) == IntLiteral(n, 1, c)
Neg(n, c) == UnaryOp("-", IntLiteral(n, 1, c + 1), 1, c)

\* print(a op b); for literals and negated literals a and b
PrintPrograms ==
    { <<PrintStatement(BinaryOp(op, a, b, 1, 9), 1, 1)>> :
        op \in {"/", "%", "+", "<"},
        a \in {Lit(7, 7), Neg(7, 7)},
        b \in {Lit(2, 11), Neg(2, 11), Lit(0, 11)} }

\* int x; x = n; while (x > 0) { print(x); x = x - 1; }
Countdown(n) ==
    << VarDeclaration("int", nx, 1, 1),
       Assignment(nx, Lit(n, 5), 2, 1),
       WhileStatement(
           BinaryOp(">", Identifier(nx, 3, 8), IntLiteral(0, 3, 12), 3, 10),
           << PrintStatement(Identifier(nx, 4, 7), 4, 1),
              Assignment(nx, BinaryOp("-", Identifier(nx, 5, 5),
                                      IntLiteral(1, 5, 9), 5, 7), 5, 1) >>,
           3, 1) >>

\* int x; x = 1; { T x; x = v; } print(x + 1);
Shadow(var_type, value) ==
    << VarDeclaration("int", nx, 1, 1),
       Assignment(nx, Lit(1, 5), 2, 1),
       Block(<< VarDeclaration(var_type, nx, 4, 1),
                Assignment(nx, value, 5, 1) >>, 3, 1),
       PrintStatement(BinaryOp("+", Identifier(nx, 7, 7),
                               IntLiteral(1, 7, 11), 7, 9), 7, 1) >>

\* bool y; y = a < 2; if (y) { print(a / 2); } else { print(a % 2); }
Branch(a) ==
    << VarDeclaration("bool", ny, 1, 1),
       Assignment(ny, BinaryOp("<", a, IntLiteral(2, 2, 9), 2, 7), 2, 1),
       IfStatement(Identifier(ny, 3, 5),
           <<PrintStatement(BinaryOp("/", a, IntLiteral(2, 4, 11), 4, 9), 4, 1)>>,
           <<PrintStatement(BinaryOp("%", a, IntLiteral(2, 5, 11), 5, 9), 5, 1)>>,
           3, 1) >>

\* int x; x = a; print(x / 2);
RuntimeDivision(a) ==
    << VarDeclaration("int", nx, 1, 1),
       Assignment(nx, a, 2, 1),
       PrintStatement(BinaryOp("/", Identifier(nx, 3, 7),
                               IntLiteral(2, 3, 11), 3, 9), 3, 1) >>

\* int v; print(v);  and  int v; v = 1; print(v + 1);  for a variable named x
\* and one named like a temp
Plain(v) ==
    {<< VarDeclaration("int", v, 1, 1),
        PrintStatement(Identifier(v, 2, 7), 2, 1) >>,
     << VarDeclaration("int", v, 1, 1),
        Assignment(v, Lit(1, 5), 2, 1),
        PrintStatement(BinaryOp("+", Identifier(v, 3, 7), Lit(1, 11), 3, 9), 3, 1) >>}

PipePrograms ==
    PrintPrograms
    \cup Plain(nx) \cup Plain(nt0)
    \cup {Countdown(n) : n \in 0..MaxCount}
    \cup {Shadow("int", Lit(2, 5)), Shadow("bool", BoolLiteral(TRUE, 5, 5)),
          Shadow("bool", Lit(2, 5))}
    \cup {Branch(a) : a \in {Lit(7, 5), Neg(7, 5), Lit(1, 5)}}
    \cup {RuntimeDivision(a) : a \in {Lit(7, 5), Neg(7, 5)}}

PipeInit ==
    /\ ast \in PipePrograms
    /\ NoSource
    /\ SemConstructed
    /\ ir_pc = "none"
    /\ ir_instructions = <<>>
    /\ OptimizerConstructed
    /\ AssemblyGeneratorConstructed
    /\ NoPasses
    /\ ParserConstructed

\* phase 6 with optimize_code set, as it is by default: the assembly of the
\* list optimize returned
GenerateAssembly ==
    /\ opt_pc = "returned"
    /\ generated = <<>>
    /\ Generate(results[Len(results)])

\* phase 5, taken when optimize_code is set
OptimizeCode ==
    /\ generated = <<>>
    /\ OptimizeCall

\* phase 6 with optimize_code not set (--no-optimize): the assembly of the
\* list generate_ir returned
GenerateUnoptimized ==
    /\ ir_pc = "generated"
    /\ opt_pc = "idle"
    /\ generated = <<>>
    /\ Generate(ir_instructions)

PipeNext ==
    \/ SemNext
    \/ GenerateIR
    \/ OptimizeCode
    \/ OptimizeCycle
    \/ OptimizeReturn
    \/ GenerateAssembly
    \/ GenerateUnoptimized

PipeSpec == PipeInit /\ [][PipeNext]_vars

(***************************************************************************)
(* The IR generator on programs the analyzer accepted: compile_code called *)
(* on one program after another, each call with a SemanticAnalyzer and an  *)
(* IRGenerator of its own.                                                 *)
(***************************************************************************)
MaxNest == 2   \* if and while statements inside one another

\* the names of the one variable of a program: x, and a name spelt like the
\* first name new_temp makes
IrNames == {nx, nt0}

Var(v) == Identifier(v, 1, 1)

\* v < 1
Below(v) == BinaryOp("<", Var(v), Lit(1, 1), 1, 1)

\* v = 1;  v = v + 1;  print(v);  { print(v); }
Simple(v) ==
    {Assignment(v, Lit(1, 1), 1, 1),
     Assignment(v, BinaryOp("+", Var(v), Lit(1, 1), 1, 1), 1, 1),
     PrintStatement(Var(v), 1, 1),
     Block(<<PrintStatement(Var(v), 1, 1)>>, 1, 1)}

\* the statements with at most depth if and while statements inside one
\* another: an if with and without else, a while, around a statement of
\* less depth
RECURSIVE Statements(_, _)
Statements(v, depth) ==
    IF depth = 0 THEN Simple(v)
    ELSE LET inner == Statements(v, depth - 1)
             deepest == IF depth = 1 THEN inner ELSE inner \ Statements(v, depth - 2)
         IN inner
            \cup {IfStatement(Below(v), <<s>>, <<>>, 1, 1) : s \in deepest}
            \cup {IfStatement(Below(v), <<PrintStatement(Var(v), 1, 1)>>, <<s>>, 1, 1) :
                    s \in deepest}
            \cup {WhileStatement(Below(v), <<s>>, 1, 1) : s \in deepest}

\* int v; v = 1; and a statement, or an if or while around a simple
\* statement and a statement after it
IrPrograms ==
    UNION {
        {<<VarDeclaration("int", v, 1, 1), Assignment(v, Lit(1, 1), 1, 1), s>> :
            s \in Statements(v, MaxNest)}
        \cup {<<VarDeclaration("int", v, 1, 1), s1, s2>> :
                s1 \in Statements(v, 1) \ Simple(v),
                s2 \in Statements(v, 1)} :
        v \in IrNames}

IrInit ==
    /\ ast \in IrPrograms
    /\ NoSource
    /\ SemConstructed
    /\ ir_pc = "none"
    /\ ir_instructions = <<>>
    /\ OptimizerConstructed
    /\ AssemblyGeneratorConstructed
    /\ NoPasses
    /\ ParserConstructed

\* compile_code called again, for another program
CompileAgain ==
    /\ ir_pc = "generated"
    /\ ast' \in IrPrograms
    /\ sem_pc' = "constructed"
    /\ sem_stack' = <<>>
    /\ current_scope' = <<EmptySymbols>>
    /\ errors' = <<>>
    /\ raised' = None
    /\ expr_type' = "None"
    /\ ir_pc' = "none"
    /\ ir_instructions' = <<>>
    /\ UNCHANGED <<lexVars, optVars, asmVars, parseVars, passVars>>

IrNext ==
    \/ SemNext
    \/ GenerateIR
    \/ CompileAgain

IrSpec == IrInit /\ [][IrNext]_vars

(***************************************************************************)
(* The scope and type rules read off the AST alone, for comparison with    *)
(* what the analyzer does with its symbol tables.  A frame of sem_stack is *)
(* the statement list of one open scope; the statements before its idx are *)
(* the ones already visited there.                                         *)
(***************************************************************************)
\* VarDecls of name n already visited in the statement list of frame f
EarlierDecls(f, n) ==
    {j \in 1..(sem_stack[f].idx - 1) :
        /\ j <= Len(sem_stack[f].stmts)
        /\ sem_stack[f].stmts[j].kind = "VarDeclaration"
        /\ sem_stack[f].stmts[j].name = n}

\* n was declared earlier in the current scope or in an enclosing open one
RuleVisible(n) == \E f \in 1..Len(sem_stack) : EarlierDecls(f, n) # {}

\* the declared type of n: the declaration of the innermost scope that has one
RuleDeclaredType(n) ==
    IF ~RuleVisible(n) THEN "error"
    ELSE LET f == CHOOSE g \in 1..Len(sem_stack) :
                    /\ EarlierDecls(g, n) # {}
                    /\ \A h \in (g + 1)..Len(sem_stack) : EarlierDecls(h, n) = {}
             j == CHOOSE i \in EarlierDecls(f, n) :
                    \A k \in EarlierDecls(f, n) : i <= k
         IN sem_stack[f].stmts[j].var_type

\* the type rules of the specification; "error" where no rule applies
RECURSIVE RuleType(_)
RuleType(e) ==
    CASE e.kind = "IntLiteral" -> "int"
      [] e.kind = "BoolLiteral" -> "bool"
      [] e.kind = "Identifier" -> RuleDeclaredType(e.name)
      [] e.kind = "UnaryOp" ->
            LET t == RuleType(e.operand) IN
            CASE e.operator = "-" /\ t = "int" -> "int"
              [] e.operator = "!" /\ t = "bool" -> "bool"
              [] OTHER -> "error"
      [] e.kind = "BinaryOp" ->
            LET l == RuleType(e.left)
                r == RuleType(e.right) IN
            CASE l = "error" \/ r = "error" -> "error"
              [] e.operator \in {"+", "-", "*", "/", "%"} /\ l = "int" /\ r = "int" -> "int"
              [] e.operator \in {"<", ">", "<=", ">="} /\ l = "int" /\ r = "int" -> "bool"
              [] e.operator \in {"==", "!="} /\ l = r -> "bool"
              [] e.operator \in {"&&", "||"} /\ l = "bool" /\ r = "bool" -> "bool"
              [] OTHER -> "error"

\* the names an expression refers to
RECURSIVE NamesIn(_)
NamesIn(e) ==
    CASE e.kind = "Identifier" -> {e.name}
      [] e.kind = "UnaryOp" -> NamesIn(e.operand)
      [] e.kind = "BinaryOp" -> NamesIn(e.left) \cup NamesIn(e.right)
      [] OTHER -> {}

\* the expression of a statement that has one
ExprOf(stmt) ==
    IF stmt.kind \in {"IfStatement", "WhileStatement"}
    THEN stmt.condition ELSE stmt.expression

HasExpr(stmt) ==
    stmt.kind \in {"Assignment", "PrintStatement", "IfStatement", "WhileStatement"}

\* the names a statement uses: its expression's, and an assignment's target
UsesOf(stmt) ==
    IF stmt.kind = "Assignment"
    THEN {stmt.name} \cup NamesIn(stmt.expression)
    ELSE NamesIn(ExprOf(stmt))

RejectedWith(message) ==
    /\ sem_pc = "rejected"
    /\ errors # <<>>
    /\ errors[Len(errors)].message = message

(***************************************************************************)
(* C5: a VarDecl of n is rejected if and only if n was already declared in *)
(* the innermost scope: that is, by an earlier statement of the statement  *)
(* list being visited.  Declarations of enclosing scopes do not count,     *)
(* whatever their types.                                                   *)
(***************************************************************************)
C5_RedeclarationScope ==
    [][Visiting("VarDeclaration") =>
         /\ (sem_pc' = "rejected") <=>
                (EarlierDecls(Len(sem_stack), Current.name) # {})
         /\ (sem_pc' = "rejected") =>
                /\ errors'[1].message = "already declared in this scope"
                /\ errors'[1].arg = Current.name]_vars

\* a name declared in a nested scope with another type than in the root scope
C5_Witness ==
    /\ sem_pc = "analyzing"
    /\ Len(current_scope) >= 2
    /\ \E n \in DOMAIN current_scope[Len(current_scope)] :
          /\ n \in DOMAIN current_scope[1]
          /\ current_scope[1][n] # current_scope[Len(current_scope)][n]

(***************************************************************************)
(* C6: a use of a name is accepted if and only if the name was declared    *)
(* earlier in the current scope or an enclosing scope that is still open.  *)
(* A statement using an undeclared name is rejected; the error "Undeclared *)
(* variable" is raised only for a used name that is not visible.           *)
(***************************************************************************)
C6_DeclaredUse ==
    [][(AtStatement /\ HasExpr(Current)) =>
         LET undeclared == {n \in UsesOf(Current) : ~RuleVisible(n)} IN
         /\ (undeclared # {}) => (sem_pc' = "rejected")
         /\ (sem_pc' = "rejected" /\ errors'[1].message = "Undeclared variable")
                => errors'[1].arg \in undeclared
         /\ (undeclared = {} /\ sem_pc' = "rejected")
                => errors'[1].message # "Undeclared variable"]_vars

\* a name declared in the then-branch is used in the else-branch and rejected
C6_Witness ==
    /\ RejectedWith("Undeclared variable")
    /\ \E k \in 1..Len(ast) :
          /\ ast[k].kind = "IfStatement"
          /\ ast[k].then_block # <<>>
          /\ ast[k].else_block # <<>>
          /\ ast[k].then_block[1].kind = "VarDeclaration"
          /\ ast[k].then_block[1].name = errors[1].arg
          /\ ast[k].else_block[1].line = errors[1].line

(***************************************************************************)
(* C7: the type the analyzer computes for an expression is the type the    *)
(* rules of the specification give it, and the expression is rejected      *)
(* exactly when no rule applies.                                           *)
(***************************************************************************)
ExprEvaluated ==
    /\ AtStatement
    /\ HasExpr(Current)
    /\ (Current.kind = "Assignment" => RuleVisible(Current.name))

C7_ExpressionTypes ==
    [][ExprEvaluated => expr_type' = RuleType(ExprOf(Current))]_vars

\* bool == bool compared with an int: the equality of two bools was typed bool
C7_Witness ==
    /\ sem_pc = "rejected"
    /\ expr_type = "error"
    /\ \E k \in 1..Len(ast) :
          /\ ast[k].kind = "PrintStatement"
          /\ ast[k].expression.kind = "BinaryOp"
          /\ ast[k].expression.operator = "<"
          /\ ast[k].expression.left.kind = "BinaryOp"
          /\ ast[k].expression.left.operator = "=="
          /\ ast[k].expression.left.left.kind = "BoolLiteral"
          /\ ast[k].expression.left.right.kind = "BoolLiteral"
          /\ errors[1].column = ast[k].expression.column

(***************************************************************************)
(* C8: an Assign whose name is declared and whose expression has a type is *)
(* rejected exactly when that type differs from the declared type of the   *)
(* name; an If or While whose condition has a type is rejected exactly     *)
(* when that type is not bool; a Print of an int or a bool is accepted.    *)
(***************************************************************************)
C8_ContextRules ==
    [][(ExprEvaluated /\ RuleType(ExprOf(Current)) # "error") =>
         LET t == RuleType(ExprOf(Current)) IN
         CASE Current.kind = "Assignment" ->
                (sem_pc' = "rejected") <=> (t # RuleDeclaredType(Current.name))
           [] Current.kind \in {"IfStatement", "WhileStatement"} ->
                (sem_pc' = "rejected") <=> (t # "bool")
           [] Current.kind = "PrintStatement" -> sem_pc' # "rejected"]_vars

\* an int condition of a while was rejected
C8_Witness ==
    /\ RejectedWith("While condition must be of type bool")
    /\ expr_type = "int"

(***************************************************************************)
(* C9: when analyze rejects a program it stops at the first offending      *)
(* node, records exactly one error, and the SemanticError it raises to its *)
(* caller carries the line and column of that node.                        *)
(***************************************************************************)
C9_ErrorPosition ==
    sem_pc = "rejected" =>
        /\ sem_stack = <<>>
        /\ Len(errors) = 1
        /\ raised # None
        /\ raised[1].line = errors[1].line
        /\ raised[1].column = errors[1].column

(***************************************************************************)
(* The optimizer's fixpoint                                                *)
(***************************************************************************)

\* C2: a further call of optimize on the list optimize returned returns that
\* list again, instruction for instruction.
C2_Idempotent ==
    Len(results) >= 2 => results[2] = results[1]

\* the call has run no more than max_iterations cycles, no copy chain was
\* chased forever, and a call that returned ran at least one cycle and ended
\* on a cycle that kept the instruction count or on the last allowed cycle
OptimizeBounded ==
    /\ opt_pc # "hung"
    /\ iteration <= max_iterations
    /\ opt_pc = "returned" =>
          /\ iteration >= 1
          /\ Len(instructions) = old_length \/ iteration = max_iterations

\* a cycle after the first is run only when the cycle before it changed the
\* instruction count
CycleAfterChange ==
    (opt_pc = "running" /\ iteration >= 1 /\ iteration' = iteration + 1)
        => Len(instructions) # old_length

\* C3: every call of optimize returns, after at least one and at most ten
\* cycles of the five passes, stopping after the first cycle that leaves the
\* instruction count as it was; no inner loop runs forever.
C3_OptimizeTerminates ==
    /\ []OptimizeBounded
    /\ [][CycleAfterChange]_vars
    /\ (opt_pc = "running") ~> (opt_pc = "returned")

\* a call that returned after several cycles, the last one keeping the count
C3_Witness ==
    /\ opt_pc = "returned"
    /\ iteration >= 3
    /\ iteration < max_iterations
    /\ Len(instructions) = old_length

(***************************************************************************)
(* The generated and the optimized code, run                               *)
(***************************************************************************)

\* C1: for an accepted program whose run divides by no zero, the optimized
\* TAC prints the sequence of values the generated TAC prints.
C1_SamePrints ==
    (sem_pc = "accepted" /\ opt_pc = "returned") =>
        LET plain == Execute(ir_instructions)
            optimized == Execute(results[1])
        IN plain.fault = "none" =>
               /\ optimized.fault = "none"
               /\ optimized.out = plain.out

\* C4: in the run of the TAC generated for an accepted program, every binary
\* and unary operator is applied to operands of the types it is defined on,
\* the type of a name being that of the value it holds at that instruction.
C4_OperandTypes ==
    (sem_pc = "accepted" /\ ir_pc = "generated") =>
        Execute(ir_instructions).typed

(***************************************************************************)
(* The lexer's result                                                      *)
(***************************************************************************)
RECURSIVE Concat(_)
Concat(texts) == IF texts = <<>> THEN <<>> ELSE Head(texts) \o Concat(Tail(texts))

SpanTexts == [i \in 1..Len(spans) |-> spans[i].text]

\* the texts of the spans that became tokens, in order
RECURSIVE Lexemes(_)
Lexemes(ss) ==
    IF ss = <<>> THEN <<>>
    ELSE IF Head(ss).skipped THEN Lexemes(Tail(ss))
    ELSE <<Head(ss).text>> \o Lexemes(Tail(ss))

\* whitespace, or a comment from its opening to its end
IsSkippable(text) ==
    \/ \A i \in 1..Len(text) : text[i] \in Whitespace
    \/ /\ Len(text) >= 4
       /\ SubSeq(text, 1, 2) = <<"/", "*">>
       /\ SubSeq(text, Len(text) - 1, Len(text)) = <<"*", "/">>
    \/ /\ Len(text) >= 2
       /\ SubSeq(text, 1, 2) = <<"/", "/">>
       /\ \A i \in 1..Len(text) : text[i] # "\n"

\* the 1-based line and column of the character at position pos
LineAt(pos) == 1 + Cardinality({i \in 1..pos : source_code[i] = "\n"})
ColumnAt(pos) ==
    LET newlines == {i \in 1..pos : source_code[i] = "\n"}
    IN IF newlines = {} THEN pos + 1
       ELSE pos + 1 - (CHOOSE i \in newlines : \A j \in newlines : j <= i)

\* (a) of C10
TokenizeResult ==
    lex_pc = "returned" =>
        /\ tokens # <<>>
        /\ \A i \in 1..Len(tokens) : (tokens[i].type = "EOF") = (i = Len(tokens))
        /\ Concat(SpanTexts) = source_code
        /\ Lexemes(spans) = [i \in 1..(Len(tokens) - 1) |-> tokens[i].value]
        /\ \A i \in 1..Len(spans) :
              /\ spans[i].text # <<>>
              /\ spans[i].skipped => IsSkippable(spans[i].text)

\* (b) of C10
TokenizeError ==
    lex_pc = "raised" =>
        /\ lex_error # None
        /\ position < Len(source_code)
        /\ Concat(SpanTexts) = SubSeq(source_code, 1, position)
        /\ matching(source_code, position) = {}
        /\ lex_error[1].line = LineAt(position)
        /\ lex_error[1].column = ColumnAt(position)

\* C10: tokenize ends, either returning tokens that end in the one EOF and
\* whose lexemes, with the skipped whitespace and comments between them, are
\* the input, or raising LexerError at the 1-based line and column of the
\* first character no pattern matches.
C10_LexerTotal ==
    /\ [](TokenizeResult /\ TokenizeError)
    /\ <>(lex_pc \in {"returned", "raised"})

\* a returned list with tokens around a skipped comment
C10_Witness ==
    /\ lex_pc = "returned"
    /\ Len(tokens) >= 2
    /\ \E i \in 1..Len(spans) : spans[i].skipped /\ Len(spans[i].text) >= 4

(***************************************************************************)
(* The lexemes the scan takes                                              *)
(***************************************************************************)
\* the place in source_code (counted from 0) where the i-th span begins
SpanStart(i) == Len(Concat(SubSeq(SpanTexts, 1, i - 1)))

\* the spans that became tokens, by their place in spans: the j-th of them
\* is the span of tokens[j]
TokenSpans ==
    LET unskipped(i) == ~spans[i].skipped
    IN SelectSeq([i \in 1..Len(spans) |-> i], unskipped)

TwoCharOperators ==
    {<<"<", "=">>, <<">", "=">>, <<"=", "=">>, <<"!", "=">>, <<"&", "&">>, <<"|", "|">>}

IdentifierShaped(text) ==
    /\ text # <<>>
    /\ text[1] \in Letters
    /\ \A i \in 2..Len(text) : text[i] \in Letters \cup DigitChars

\* the keywords that are a proper prefix of text
KeywordPrefixes(text) ==
    {k \in 1..Len(KEYWORDS) :
        /\ Len(KEYWORDS[k].value) < Len(text)
        /\ SubSeq(text, 1, Len(KEYWORDS[k].value)) = KEYWORDS[k].value}

\* C11: every lexeme taken is the longest that any pattern of the table
\* matches where it begins; a lexeme that begins with a two-character
\* operator is that operator, one token; an identifier-shaped lexeme has a
\* keyword's type exactly when the whole lexeme is that keyword, and is an
\* IDENTIFIER otherwise.
C11_LongestMatch ==
    /\ \A i \in 1..Len(spans) :
          /\ \A k \in 1..Len(TOKEN_PATTERNS) :
                match_length(TOKEN_PATTERNS[k], source_code, SpanStart(i))
                    <= Len(spans[i].text)
          /\ \A op \in TwoCharOperators :
                (~spans[i].skipped /\ starts_with(source_code, SpanStart(i), op))
                    => spans[i].text = op
    /\ \A j \in 1..Len(TokenSpans) :
          LET text == spans[TokenSpans[j]].text
              keys == {k \in 1..Len(KEYWORDS) : KEYWORDS[k].value = text}
          IN /\ tokens[j].value = text
             /\ IdentifierShaped(text) =>
                   /\ keys = {} => tokens[j].type = "IDENTIFIER"
                   /\ \A k \in keys : tokens[j].type = KEYWORDS[k].type
             /\ tokens[j].type \in {KEYWORDS[k].type : k \in 1..Len(KEYWORDS)}
                   => keys # {}

\* a name that begins with a keyword, a keyword, and <= before = from "<=="
C11_Witness ==
    /\ lex_pc = "returned"
    /\ \E j \in 1..Len(tokens) :
          tokens[j].type = "IDENTIFIER" /\ KeywordPrefixes(tokens[j].value) # {}
    /\ \E j \in 1..Len(tokens) : tokens[j].type = "INT"
    /\ \E j \in 1..(Len(tokens) - 1) :
          tokens[j].type = "LESS_EQUAL" /\ tokens[j + 1].type = "ASSIGN"

\* C12: a source text with a character above code point 127 anywhere in it
\* is never tokenized: tokenize does not return a token list for it.
C12_NonAsciiRejected ==
    lex_pc = "returned" => \A i \in 1..Len(source_code) : source_code[i] \notin NonAscii

\* C19: the line and column of every token are the 1-based line and column
\* of its first character, a line being ended by each newline character
\* before it, whatever text the newline was in; the EOF token carries the
\* line and column of the end of the text.
C19_TokenPositions ==
    /\ \A j \in 1..Len(TokenSpans) :
          /\ tokens[j].line = LineAt(SpanStart(TokenSpans[j]))
          /\ tokens[j].column = ColumnAt(SpanStart(TokenSpans[j]))
    /\ lex_pc = "returned" =>
          /\ tokens[Len(tokens)].line = LineAt(Len(source_code))
          /\ tokens[Len(tokens)].column = ColumnAt(Len(source_code))

\* a token on a later line, after a block comment that holds a newline
C19_Witness ==
    /\ lex_pc = "returned"
    /\ \E i \in 1..Len(spans) :
          /\ spans[i].skipped
          /\ Len(spans[i].text) >= 4
          /\ SubSeq(spans[i].text, 1, 2) = <<"/", "*">>
          /\ \E c \in 1..Len(spans[i].text) : spans[i].text[c] = "\n"
    /\ \E j \in 1..(Len(tokens) - 1) : tokens[j].line >= 2 /\ tokens[j].column >= 2

(***************************************************************************)
(* Constant folding of divisions                                           *)
(***************************************************************************)
\* the locals of constant_folding when its loop reaches instrs[i]
FoldStateBefore(instrs, i) ==
    fold_loop([optimized |-> <<>>, constants |-> EmptyDict], SubSeq(instrs, 1, i - 1))

\* instr divides, its operands being integer constants on st
ConstantDivision(st, instr) ==
    /\ instr.kind = "TACBinaryOp"
    /\ instr.op \in {"/", "%"}
    /\ fold_is_const(st.constants, instr.left)
    /\ fold_is_const(st.constants, instr.right)
    /\ ~fold_operand(st.constants, instr.left).isbool
    /\ ~fold_operand(st.constants, instr.right).isbool

\* instr divides by an operand that is the constant 0 on st
ZeroDivision(st, instr) ==
    /\ instr.kind = "TACBinaryOp"
    /\ instr.op \in {"/", "%"}
    /\ fold_is_const(st.constants, instr.right)
    /\ fold_operand(st.constants, instr.right) = PyInt(0)

\* C15: constant folding replaces a / or % of two constant integers with a
\* non-zero divisor by the assignment of the quotient truncated toward zero,
\* or of the remainder with the dividend's sign: what cqo; idivq computes.
C15_FoldTruncates ==
    \A i \in 1..Len(instructions) :
        LET instr == instructions[i]
            st == FoldStateBefore(instructions, i)
            a == fold_operand(st.constants, instr.left).v
            b == fold_operand(st.constants, instr.right).v
        IN (ConstantDivision(st, instr) /\ b # 0) =>
              constant_folding(instructions)[i] =
                  TACAssign(instr.dest,
                            str(IF instr.op = "/" THEN idivq_quotient(a, b)
                                ELSE idivq_remainder(a, b)))

\* C16: constant folding emits a / or % whose right operand is the constant
\* 0, a literal or a temp known to be 0, unchanged; after it the destination
\* is not among the known constants, and an instruction next to it that
\* reads the destination is emitted unchanged as well.
C16_ZeroDivisorKept ==
    \A i \in 1..Len(instructions) :
        LET instr == instructions[i]
            before == FoldStateBefore(instructions, i)
            after == FoldStateBefore(instructions, i + 1)
        IN ZeroDivision(before, instr) =>
              /\ after.optimized = Append(before.optimized, instr)
              /\ instr.dest \notin DOMAIN after.constants
              /\ (i < Len(instructions) /\ instr.dest \in uses(instructions[i + 1]))
                    => constant_folding(instructions)[i + 1] = instructions[i + 1]

\* a division by a temp known to be 0 into a temp that was a known constant,
\* read by the next instruction, in a list that optimize went through
C16_Witness ==
    /\ opt_pc = "returned"
    /\ \E i \in 1..(Len(ir_instructions) - 1) :
          LET instr == ir_instructions[i]
              before == FoldStateBefore(ir_instructions, i)
          IN /\ ZeroDivision(before, instr)
             /\ instr.right \in DOMAIN before.constants
             /\ instr.dest \in DOMAIN before.constants
             /\ instr.dest \in uses(ir_instructions[i + 1])
    /\ \E i \in 1..Len(results[1]) :
          /\ results[1][i].kind = "TACBinaryOp"
          /\ results[1][i].op \in {"/", "%"}
          /\ results[1][i].right = str_0

(***************************************************************************)
(* The assembly generated                                                  *)
(***************************************************************************)
Range(f) == {f[i] : i \in DOMAIN f}

\* C17: the text a call of generate returns is the text a fresh generator
\* returns for the TAC list passed, whatever calls were made on the
\* generator before; two calls on the same list return the same text.
C17_Deterministic ==
    \A c \in 1..Len(generated) :
       /\ generated[c].text
             = generate(AssemblyGenerator, generated[c].instructions).text
       /\ \A d \in 1..Len(generated) :
             generated[d].instructions = generated[c].instructions
                => generated[d].text = generated[c].text

\* a list that reads a name it does not allocate, generated on a generator
\* whose earlier call allocated that name, and on a fresh generator
C17_Witness ==
    \E c, d, e \in 1..Len(generated) :
       /\ c < d /\ d < e
       /\ generated[c].generator = generated[d].generator
       /\ generated[e].generator # generated[d].generator
       /\ generated[d].instructions = generated[e].instructions
       /\ \E name \in allocated(generated[c].instructions)
                         \ allocated(generated[d].instructions) :
             \E i \in 1..Len(generated[d].instructions) :
                /\ generated[d].instructions[i].kind = "TACPrint"
                /\ generated[d].instructions[i].value = name

\* the source operands of instr, each with the register it is loaded into
SourceOperands(instr) ==
    CASE instr.kind = "TACAssign" -> {[operand |-> instr.src, register |-> "%rax"]}
      [] instr.kind = "TACBinaryOp" -> {[operand |-> instr.left, register |-> "%rax"],
                                        [operand |-> instr.right, register |-> "%rbx"]}
      [] instr.kind = "TACUnaryOp" -> {[operand |-> instr.operand, register |-> "%rax"]}
      [] instr.kind = "TACIfFalse" -> {[operand |-> instr.condition, register |-> "%rax"]}
      [] instr.kind = "TACPrint" -> {[operand |-> instr.value, register |-> "%rsi"]}
      [] OTHER -> {}

\* a decimal integer, true or false
IsLiteral(operand) == operand \in {str_true, str_false} \/ IntParses(operand)

\* the text after "$" for a literal: n for n, 1 for true, 0 for false
ImmediateOf(operand) ==
    IF operand = str_true THEN str_1
    ELSE IF operand = str_false THEN str_0
    ELSE operand

\* line has "$" with word right after it
HasImmediate(line, word) ==
    \E k \in 1..(Len(line) - Len(word)) :
       line[k] = "$" /\ SubSeq(line, k + 1, k + Len(word)) = word

\* C18: for every source operand of every instruction that is a literal,
\* the lines generated for the instruction load the immediate $n, $1 for
\* true and $0 for false into the operand's register, and do not load a
\* stack slot for it; no line of the output has $true or $false.
C18_LiteralImmediates ==
    \A c \in 1..Len(generated) :
       LET instrs == generated[c].instructions
           offsets == generated[c].self.var_offsets
       IN /\ \A i \in 1..Len(instrs) : \A so \in SourceOperands(instrs[i]) :
                IsLiteral(so.operand) =>
                   LET lines == Range(_generate_instruction(offsets, instrs[i]))
                   IN /\ movq_immediate(ImmediateOf(so.operand), so.register) \in lines
                      /\ movq_load(offsets, so.operand, so.register) \notin lines
          /\ \A line \in Range(generated[c].self.asm_lines) :
                ~HasImmediate(line, str_true) /\ ~HasImmediate(line, str_false)

\* the names a VarDecl declares or an Assign, BinOp or UnOp assigns
AssignedNames(instrs) ==
    {instrs[i].name : i \in {j \in 1..Len(instrs) : instrs[j].kind = "TACVarDecl"}}
    \cup {instrs[i].dest : i \in {j \in 1..Len(instrs) :
              /\ instrs[j].kind \in {"TACAssign", "TACBinaryOp", "TACUnaryOp"}
              /\ ~IsLiteral(instrs[j].dest)}}

\* C20: the names declared or assigned are the keys of var_offsets; the k-th
\* of the N names in ascending string order has offset -8*k, so no two names
\* share an offset and every offset is within the N*8 bytes that the line
\* subq $N*8, %rsp, emitted right after the prologue, reserves; with N = 0
\* no such line is emitted.
C20_StackOffsets ==
    \A c \in 1..Len(generated) :
       LET names == AssignedNames(generated[c].instructions)
           offsets == generated[c].self.var_offsets
           lines == generated[c].self.asm_lines
           N == Cardinality(names)
           reserve == <<"    subq    ", "$">> \o str(N * 8) \o <<", %rsp">>
       IN /\ DOMAIN offsets = names
          /\ \A n \in names :
                /\ offsets[n] = -8 * (1 + Cardinality({m \in names : str_less(m, n)}))
                /\ offsets[n] <= -8 /\ offsets[n] >= -(N * 8)
                /\ \A m \in names \ {n} : offsets[m] # offsets[n]
          /\ N > 0 => lines[Len(Header) + 1] = reserve
          /\ N = 0 => \A k \in 1..Len(lines) :
                         ~(Len(lines[k]) >= 2 /\ SubSeq(lines[k], 1, 2) = <<"    subq    ", "$">>)

\* four names, t10 before t2 before x before y, and a list without names
C20_Witness ==
    /\ \E c \in 1..Len(generated) :
          /\ Cardinality(DOMAIN generated[c].self.var_offsets) = 4
          /\ generated[c].self.var_offsets[nt10] = -8
          /\ generated[c].self.var_offsets[nt2] = -16
          /\ generated[c].self.var_offsets[ny] = -32
    /\ \E c \in 1..Len(generated) :
          /\ generated[c].instructions # <<>>
          /\ generated[c].self.var_offsets = EmptyDict

(***************************************************************************)
(* Parser: grouping of operators, acceptance and errors                    *)
(***************************************************************************)
\* the precedence level of a binary operator token, 1 the lowest
PrecedenceLevel(type) ==
    CASE type = "OR" -> 1
      [] type = "AND" -> 2
      [] type \in {"EQUAL", "NOT_EQUAL"} -> 3
      [] type \in {"LESS_THAN", "GREATER_THAN", "LESS_EQUAL", "GREATER_EQUAL"} -> 4
      [] type \in {"PLUS", "MINUS"} -> 5
      [] type \in {"MULTIPLY", "DIVIDE", "MODULO"} -> 6
      [] OTHER -> 0

\* how many parentheses are open before token i of the span starting at lo
OpenBefore(toks, lo, i) ==
    Cardinality({j \in lo..(i - 1) : toks[j].type = "LPAREN"})
        - Cardinality({j \in lo..(i - 1) : toks[j].type = "RPAREN"})

\* the binary operators of the span lo..hi outside its parentheses: a token of
\* a binary level that follows the end of an operand
OuterOperators(toks, lo, hi) ==
    {i \in (lo + 1)..hi :
        /\ PrecedenceLevel(toks[i].type) > 0
        /\ OpenBefore(toks, lo, i) = 0
        /\ toks[i - 1].type \in {"IDENTIFIER", "NUMBER", "TRUE", "FALSE", "RPAREN"}}

Max(S) == CHOOSE m \in S : \A other \in S : other <= m
Min(S) == CHOOSE m \in S : \A other \in S : m <= other

\* The tree the grouping rules give the expression in tokens lo..hi: it
\* splits at the last of its outer operators of the lowest level, so that
\* higher levels bind first and a level groups left to right; without outer
\* operators a prefix operator applies to all that follows it, and a pair of
\* parentheses stands for what it encloses.
RECURSIVE Grouped(_, _, _)
Grouped(toks, lo, hi) ==
    LET outer == OuterOperators(toks, lo, hi)
        lowest == Min({PrecedenceLevel(toks[i].type) : i \in outer})
        split == Max({i \in outer : PrecedenceLevel(toks[i].type) = lowest})
        first == toks[lo]
    IN IF outer # {}
       THEN BinaryOp(op_str(toks[split].type), Grouped(toks, lo, split - 1),
                     Grouped(toks, split + 1, hi), toks[split].line, toks[split].column)
       ELSE IF first.type \in {"NOT", "MINUS"}
       THEN UnaryOp(op_str(first.type), Grouped(toks, lo + 1, hi), first.line, first.column)
       ELSE IF first.type = "LPAREN" THEN Grouped(toks, lo + 1, hi - 1)
       ELSE IF first.type = "IDENTIFIER" THEN Identifier(first.value, first.line, first.column)
       ELSE IF first.type = "NUMBER" THEN IntLiteral(int(first.value), first.line, first.column)
       ELSE BoolLiteral(first.type = "TRUE", first.line, first.column)

\* parse returned a program that is one assignment: its expression is in
\* the tokens between `=` and `;`
OneAssignment ==
    /\ parse_pc = "returned"
    /\ Len(parsed[1]) = 1
    /\ parsed[1][1].kind = "Assignment"

\* C13: the expression of an assignment the parser accepts is grouped by the
\* precedence levels: a higher level binds before a lower one, a binary level
\* groups left to right, prefix operators nest right to left, and parentheses
\* override the grouping and leave no node.
C13_PrecedenceGrouping ==
    OneAssignment =>
        parsed[1][1].expression = Grouped(parser_tokens, 3, Len(parser_tokens) - 2)

\* `( a + a ) * a` and its like: an operator of the level of + inside
\* parentheses is the left operand of an operator of the level of *
C13_Witness ==
    /\ OneAssignment
    /\ parser_tokens[3].type = "LPAREN"
    /\ parsed[1][1].expression.kind = "BinaryOp"
    /\ parsed[1][1].expression.operator = "*"
    /\ parsed[1][1].expression.left.kind = "BinaryOp"
    /\ parsed[1][1].expression.left.operator \in {"+", "-"}
    /\ parsed[1][1].expression.right.kind = "Identifier"

\* The grammar of the parser as a predictive table: what the symbol expands
\* to when the next token has type t, as a set with the one expansion or
\* empty when the grammar has none.  Symbols in lower case are nonterminals;
\* "items" is the statement* of a block, "else_opt" the optional else,
\* "operand" a unary and "expr_tail" the binary operators after it, the
\* levels of which accept the same texts as one.
StatementStart == {"INT", "BOOL", "IDENTIFIER", "IF", "WHILE", "PRINT", "LBRACE"}

Expansion(symbol, t) ==
    CASE symbol = "program" ->
            {IF t \in StatementStart THEN <<"statement", "program">> ELSE <<>>}
      [] symbol = "items" ->
            {IF t \in StatementStart THEN <<"statement", "items">> ELSE <<>>}
      [] symbol = "statement" ->
            IF t \in {"INT", "BOOL"} THEN {<<t, "IDENTIFIER", "SEMICOLON">>}
            ELSE IF t = "IDENTIFIER" THEN {<<"IDENTIFIER", "ASSIGN", "expr", "SEMICOLON">>}
            ELSE IF t = "IF"
            THEN {<<"IF", "LPAREN", "expr", "RPAREN", "block", "else_opt">>}
            ELSE IF t = "WHILE" THEN {<<"WHILE", "LPAREN", "expr", "RPAREN", "block">>}
            ELSE IF t = "PRINT"
            THEN {<<"PRINT", "LPAREN", "expr", "RPAREN", "SEMICOLON">>}
            ELSE IF t = "LBRACE" THEN {<<"block">>}
            ELSE {}
      [] symbol = "block" -> {<<"LBRACE", "items", "RBRACE">>}
      [] symbol = "else_opt" -> {IF t = "ELSE" THEN <<"ELSE", "block">> ELSE <<>>}
      [] symbol = "expr" -> {<<"operand", "expr_tail">>}
      [] symbol = "operand" ->
            IF t \in {"NOT", "MINUS"} THEN {<<t, "operand">>}
            ELSE IF t \in {"NUMBER", "TRUE", "FALSE", "IDENTIFIER"} THEN {<<t>>}
            ELSE IF t = "LPAREN" THEN {<<"LPAREN", "expr", "RPAREN">>}
            ELSE {}
      [] symbol = "expr_tail" ->
            {IF PrecedenceLevel(t) > 0 THEN <<t, "operand", "expr_tail">> ELSE <<>>}
      [] OTHER -> IF t = symbol THEN {<<>>} ELSE {}

Nonterminals ==
    {"program", "items", "statement", "block", "else_opt", "expr", "operand", "expr_tail"}

\* Reading toks from token i with the symbols of `expected` still to derive:
\* the index of the first token at which the grammar has no continuation,
\* or 0 when the tokens are derived to the end.
RECURSIVE FirstError(_, _, _)
FirstError(toks, i, expected) ==
    IF expected = <<>> THEN 0
    ELSE LET expansions == Expansion(Head(expected), toks[i].type)
         IN IF expansions = {} THEN i
            ELSE IF Head(expected) \in Nonterminals
            THEN FirstError(toks, i, Only(expansions) \o Tail(expected))
            ELSE FirstError(toks, i + 1, Tail(expected))

\* where the grammar stops on the tokens of the parser
GrammarError == FirstError(parser_tokens, 1, <<"program", "EOF">>)

\* C14: parse ends by returning a Program exactly when the tokens are
\* derivable from the grammar, and otherwise by raising ParseError with the
\* line and column of the first token at which the grammar has no
\* continuation; and every call of _statement that returns has consumed at
\* least one token.
C14_ParseOrError ==
    parse_pc # "parse" =>
        /\ parse_pc \in {"returned", "raised"}
        /\ (parse_pc = "returned") <=> (GrammarError = 0)
        /\ parse_pc = "raised" =>
               /\ GrammarError > 0
               /\ parse_error[1].line = parser_tokens[GrammarError].line
               /\ parse_error[1].column = parser_tokens[GrammarError].column
        /\ \A k \in 1..Len(statement_calls) :
               statement_calls[k].to > statement_calls[k].from

(***************************************************************************)
(* C21..C23, C28: the passes of the optimizer, one call at a time          *)
(***************************************************************************)
\* the calls of one pass method among the calls made so far
CallsOf(name) == {k \in 1..Len(pass_log) : pass_log[k].pass = name}

\* the words an operand of the operator can hold in a well-typed run
IntWords == {PyInt(v) : v \in -3..3}
BoolWords == {PyBool(b) : b \in BOOLEAN}
Words == IntWords \cup BoolWords

\* the machines in which x and t0 have been written
Machines ==
    {[pc |-> 1, mem |-> [n \in {nx, nt0} |-> IF n = nx THEN wx ELSE wt],
      out |-> <<>>, typed |-> TRUE, fault |-> "none", steps |-> 0] :
        wx \in Words, wt \in Words}

\* the operands hold words of the operator's types
OperandsTyped(m, instr) ==
    binary_operands_typed(instr.op, load(m, instr.left), load(m, instr.right))

\* the rows of the table of rewrites, each on its own
TableRows(instr) ==
    {row \in
        {[when |-> instr.op = "+" /\ instr.right = str_0, src |-> instr.left],
         [when |-> instr.op = "+" /\ instr.left = str_0, src |-> instr.right],
         [when |-> instr.op = "-" /\ instr.right = str_0, src |-> instr.left],
         [when |-> instr.op = "*" /\ instr.right = str_1, src |-> instr.left],
         [when |-> instr.op = "*" /\ instr.left = str_1, src |-> instr.right],
         [when |-> instr.op = "/" /\ instr.right = str_1, src |-> instr.left],
         [when |-> instr.op = "*" /\ str_0 \in {instr.left, instr.right},
          src |-> str_0],
         [when |-> instr.op = "||" /\ str_true \in {instr.left, instr.right},
          src |-> str_true],
         [when |-> instr.op = "||" /\ instr.left = str_false, src |-> instr.right],
         [when |-> instr.op = "||" /\ instr.right = str_false, src |-> instr.left],
         [when |-> instr.op = "&&" /\ str_false \in {instr.left, instr.right},
          src |-> str_false],
         [when |-> instr.op = "&&" /\ instr.left = str_true, src |-> instr.right],
         [when |-> instr.op = "&&" /\ instr.right = str_true, src |-> instr.left]} :
        row.when}

TableRewrites(instr) ==
    IF instr.kind = "TACBinaryOp"
    THEN {TACAssign(instr.dest, row.src) : row \in TableRows(instr)}
    ELSE {}

\* the rewrite leaves the machine as the operation leaves it
SameEffect(before, after) ==
    \A m \in Machines :
        OperandsTyped(m, before) =>
            exec_assign(m, after) = exec_binary_op(m, before)

\* C21: algebraic_simplification returns a list as long as the one given;
\* an instruction that a row of the table of rewrites applies to is at its
\* place the Assign of that row (rows that apply together give one Assign),
\* every other instruction is at its place unchanged, among them 0 - x,
\* 0 / x, x / 0, x % 1 and whatever is no BinOp; and the Assign leaves the
\* machine as the operation leaves it, for every word of the operator's
\* types in the operands.
C21_AlgebraicSimplification ==
    \A k \in CallsOf("algebraic_simplification") :
        LET given == pass_log[k].given
            returned == pass_log[k].returned
        IN /\ ~pass_log[k].hangs
           /\ Len(returned) = Len(given)
           /\ \A i \in 1..Len(given) :
                IF TableRewrites(given[i]) = {}
                THEN returned[i] = given[i]
                ELSE /\ TableRewrites(given[i]) = {returned[i]}
                     /\ SameEffect(given[i], returned[i])

\* algebraic_simplification has rewritten x * 1 and left 0 - x, 0 / x, x / 0,
\* x % 1 and what is no BinOp as they were
C21_Witness ==
    \E k \in CallsOf("algebraic_simplification") :
        /\ pass_log[k].given = UnitList
        /\ pass_log[k].returned = [UnitList EXCEPT ![2] = TACAssign(nt1, nx)]

\* the operand that is doubled: the one next to a literal 2
Doubled(instr) ==
    IF instr.kind = "TACBinaryOp" /\ instr.op = "*"
    THEN (IF instr.right = str_2 THEN {instr.left} ELSE {})
         \cup (IF instr.left = str_2 THEN {instr.right} ELSE {})
    ELSE {}

\* the two operations leave the machine alike
SameOperation(before, after) ==
    \A m \in Machines :
        OperandsTyped(m, before) =>
            exec_binary_op(m, after) = exec_binary_op(m, before)

PlacesOf(instrs, label) ==
    {j \in 1..Len(instrs) : instrs[j].kind = "TACLabel" /\ instrs[j].label = label}

\* where control can go from the instruction at place i
FlowsTo(instrs, i) ==
    CASE instrs[i].kind = "TACGoto" -> PlacesOf(instrs, instrs[i].label)
      [] instrs[i].kind = "TACIfFalse" ->
            PlacesOf(instrs, instrs[i].label) \cup ({i + 1} \cap (1..Len(instrs)))
      [] OTHER -> {i + 1} \cap (1..Len(instrs))

RECURSIVE FlowClosure(_, _)
FlowClosure(instrs, places) ==
    LET more == places \cup UNION {FlowsTo(instrs, i) : i \in places}
    IN IF more = places THEN places ELSE FlowClosure(instrs, more)

\* the places reachable from the first instruction
Reachable(instrs) == FlowClosure(instrs, {1} \cap (1..Len(instrs)))

\* the names an instruction reads
Operands(instr) ==
    CASE instr.kind = "TACAssign" -> {instr.src}
      [] instr.kind = "TACBinaryOp" -> {instr.left, instr.right}
      [] instr.kind = "TACUnaryOp" -> {instr.operand}
      [] instr.kind = "TACIfFalse" -> {instr.condition}
      [] instr.kind = "TACPrint" -> {instr.value}
      [] OTHER -> {}

\* a definition of a temp
DefinesTemp(instr) ==
    instr.kind \in {"TACAssign", "TACBinaryOp", "TACUnaryOp"} /\ _is_temp(instr.dest)

\* the places in which every definition of a temp is read at some place
Settled(instrs, places) ==
    \A i \in places :
        DefinesTemp(instrs[i]) =>
            \E j \in places : instrs[i].dest \in Operands(instrs[j])

\* what is left of the reachable places when unused definitions of temps
\* have been removed until none is left: every reachable place that is no
\* definition of a temp, and the largest set of reachable definitions of
\* temps that is settled together with them
Remaining(instrs) ==
    LET others == {i \in Reachable(instrs) : ~DefinesTemp(instrs[i])}
    IN others \cup UNION {definitions \in SUBSET (Reachable(instrs) \ others) :
                            Settled(instrs, others \cup definitions)}

\* C23: dead_code_elimination returns the list given restricted, in order,
\* to the places reachable from the first instruction (a Goto reaches the
\* place of its label only, an IfFalse the place of its label and the next
\* place, any other instruction the next place) from which the definitions
\* of temps that no remaining instruction reads have been removed until none
\* is left; every reachable Print, Label, Goto, IfFalse, VarDecl and
\* definition of a variable that is no temp is kept, and every temp defined
\* in the list returned is read in it.
C23_DeadCodeElimination ==
    \A k \in CallsOf("dead_code_elimination") :
        LET given == pass_log[k].given
            returned == pass_log[k].returned
        IN /\ ~pass_log[k].hangs
           /\ \A remaining \in {Remaining(given)} :
                /\ returned = SelectIndices(given, remaining)
                /\ \A i \in Reachable(given) :
                      ~DefinesTemp(given[i]) => i \in remaining
           /\ \A i \in 1..Len(returned) :
                DefinesTemp(returned[i]) =>
                    \E j \in 1..Len(returned) :
                        returned[i].dest \in Operands(returned[j])

\* dead_code_elimination has removed the print after the Goto and then, one
\* after the other, the two temps that only that print read
C23_Witness ==
    \E k \in CallsOf("dead_code_elimination") :
        /\ pass_log[k].given = DeadList
        /\ pass_log[k].returned = SelectIndices(DeadList, {3, 4, 6, 7, 8, 9})

(***************************************************************************)
(* C24..C27: the TAC of one generate_ir call                               *)
(***************************************************************************)
\* the places of the definitions of a name
DefinitionsOf(instrs, name) ==
    {i \in 1..Len(instrs) : has_dest(instrs[i]) /\ instrs[i].dest = name}

\* the names spelt t and digits that the list defines or reads
TempNames(instrs) ==
    {name \in UNION {Operands(instrs[i]) \cup
                        (IF has_dest(instrs[i]) THEN {instrs[i].dest} ELSE {}) :
                     i \in 1..Len(instrs)} : _is_temp(name)}

\* the destinations spelt t and digits, in the order of their instructions
TempsInOrder(instrs) ==
    LET places == {i \in 1..Len(instrs) : DefinesTemp(instrs[i])}
    IN [k \in 1..Cardinality(places) |->
            instrs[CHOOSE i \in places :
                        Cardinality({j \in places : j <= i}) = k].dest]

\* the labels a list defines or jumps to
LabelNames(instrs) ==
    {instrs[i].label : i \in {j \in 1..Len(instrs) :
        instrs[j].kind \in {"TACLabel", "TACGoto", "TACIfFalse"}}}

\* C24: in the TAC generate_ir returned for an accepted program every name
\* spelt t and digits is the destination of exactly one instruction and is
\* read only by later instructions, the destinations so spelt are t0, t1,
\* ... in the order of their instructions, and the labels are L0, L1, ...:
\* each call counts from t0 and L0 again.
C24_TempsDefinedOnce ==
    ir_pc = "generated" =>
        /\ \A name \in TempNames(ir_instructions) :
              /\ Cardinality(DefinitionsOf(ir_instructions, name)) = 1
              /\ \A j \in 1..Len(ir_instructions) :
                    name \in Operands(ir_instructions[j]) =>
                        \A i \in DefinitionsOf(ir_instructions, name) : i < j
        /\ TempsInOrder(ir_instructions) =
              [k \in 1..Len(TempsInOrder(ir_instructions)) |-> <<"t">> \o str(k - 1)]
        /\ LabelNames(ir_instructions) =
              {<<"L">> \o str(k - 1) :
                  k \in 1..Cardinality(LabelNames(ir_instructions))}

\* the code of a condition: the code of the expression and the two copies
\* of its value, the last of which is the condition value
ConditionCode(condition, g) ==
    LET c == ir_accept(condition, g) IN copy_twice(c.g, c.result)

\* the generator with more instructions at the end of its list
Then(g, more) == [g EXCEPT !.instructions = @ \o more]

\* the generator after two labels have been taken
TwoLabels(g) == [g EXCEPT !.label_count = @ + 2]

Label(k) == <<"L">> \o str(k)

RECURSIVE Emitted(_, _)

\* the code of an if statement: condition code, IfFalse to the else label,
\* then body, Goto to the end label, else label, else body, end label
EmittedIf(node, g) ==
    LET c == ConditionCode(node.condition, g)
        else_label == Label(c.label_count)
        end_label == Label(c.label_count + 1)
        then_body == Emitted(node.then_block,
                             Then(TwoLabels(c), <<TACIfFalse(last_temp(c), else_label)>>))
        else_body == Emitted(node.else_block,
                             Then(then_body, <<TACGoto(end_label), TACLabel(else_label)>>))
    IN Then(else_body, <<TACLabel(end_label)>>)

\* the code of a while statement: start label, condition code, IfFalse to
\* the end label, body, Goto to the start label, end label
EmittedWhile(node, g) ==
    LET start_label == Label(g.label_count)
        end_label == Label(g.label_count + 1)
        c == ConditionCode(node.condition,
                           Then(TwoLabels(g), <<TACLabel(start_label)>>))
        body == Emitted(node.body, Then(c, <<TACIfFalse(last_temp(c), end_label)>>))
    IN Then(body, <<TACGoto(start_label), TACLabel(end_label)>>)

\* the code of a statement list, ifs and whiles by the two schemes
Emitted(statements, g) ==
    IF statements = <<>> THEN g
    ELSE LET node == Head(statements)
             after == CASE node.kind = "IfStatement" -> EmittedIf(node, g)
                        [] node.kind = "WhileStatement" -> EmittedWhile(node, g)
                        [] node.kind = "Block" -> Emitted(node.statements, g)
                        [] OTHER -> ir_visit_statement(node, g)
         IN Emitted(Tail(statements), after)

\* the places that define the label
LabelPlaces(instrs, label) ==
    {i \in 1..Len(instrs) : instrs[i].kind = "TACLabel" /\ instrs[i].label = label}

\* C25: the TAC generate_ir returned for an accepted program is the code by
\* the two schemes (an if: condition code, IfFalse to Lelse, then body, Goto
\* Lend, Label Lelse, else body, Label Lend; a while: Label Lstart,
\* condition code, IfFalse to Lend, body, Goto Lstart, Label Lend), the
\* labels of each statement being two that no statement before it took;
\* every label is defined exactly once, so every Goto and IfFalse goes to a
\* defined label, inside other ifs and whiles as well.
C25_ControlFlowShape ==
    ir_pc = "generated" =>
        /\ ir_instructions = Emitted(ast, IRGenerator).instructions
        /\ \A label \in LabelNames(ir_instructions) :
              Cardinality(LabelPlaces(ir_instructions, label)) = 1

\* generate_ir has returned the TAC of a while around an if with an else
C25_Witness ==
    /\ ir_pc = "generated"
    /\ ast[3].kind = "WhileStatement"
    /\ ast[3].body[1].kind = "IfStatement"
    /\ ast[3].body[1].else_block # <<>>
    /\ Cardinality(LabelNames(ir_instructions)) = 4

RECURSIVE RenamedExpr(_, _, _)
\* the expression with the name n written as fresh
RenamedExpr(e, n, fresh) ==
    CASE e.kind = "Identifier" -> IF e.name = n THEN [e EXCEPT !.name = fresh] ELSE e
      [] e.kind = "UnaryOp" -> [e EXCEPT !.operand = RenamedExpr(@, n, fresh)]
      [] e.kind = "BinaryOp" ->
            [e EXCEPT !.left = RenamedExpr(@, n, fresh),
                      !.right = RenamedExpr(@, n, fresh)]
      [] OTHER -> e

RECURSIVE Renamed(_, _, _)
\* the statements with the name n written as fresh
Renamed(statements, n, fresh) ==
    [i \in 1..Len(statements) |->
        LET s == statements[i] IN
        CASE s.kind = "VarDeclaration" ->
                IF s.name = n THEN [s EXCEPT !.name = fresh] ELSE s
          [] s.kind = "Assignment" ->
                [s EXCEPT !.name = IF @ = n THEN fresh ELSE @,
                          !.expression = RenamedExpr(@, n, fresh)]
          [] s.kind = "PrintStatement" ->
                [s EXCEPT !.expression = RenamedExpr(@, n, fresh)]
          [] s.kind = "IfStatement" ->
                [s EXCEPT !.condition = RenamedExpr(@, n, fresh),
                          !.then_block = Renamed(@, n, fresh),
                          !.else_block = Renamed(@, n, fresh)]
          [] s.kind = "WhileStatement" ->
                [s EXCEPT !.condition = RenamedExpr(@, n, fresh),
                          !.body = Renamed(@, n, fresh)]
          [] s.kind = "Block" -> [s EXCEPT !.statements = Renamed(@, n, fresh)]]

\* the names the statement list declares itself
DeclaredIn(statements) ==
    {statements[i].name :
        i \in {j \in 1..Len(statements) : statements[j].kind = "VarDeclaration"}}

RECURSIVE RenamedAll(_, _)
\* the statements of a block with each of the names written with a _ after it
RenamedAll(statements, names) ==
    IF names = {} THEN statements
    ELSE LET n == CHOOSE name \in names : TRUE
         IN RenamedAll(Renamed(statements, n, n \o <<"_">>), names \ {n})

\* the program with the variables its blocks declare given names of their
\* own: the same program by the scope rules
Apart(program) ==
    [i \in 1..Len(program) |->
        IF program[i].kind = "Block"
        THEN [program[i] EXCEPT
                !.statements = RenamedAll(@, DeclaredIn(program[i].statements))]
        ELSE program[i]]

\* the names of the VarDecl instructions, in order
DeclaredNames(instrs) ==
    SelectSeq(instrs, LAMBDA instr : instr.kind = "TACVarDecl")

\* C26: a variable declared in a block with the name of a variable of an
\* enclosing scope has storage of its own: the declarations of the TAC name
\* different variables, and the generated code prints what it prints when
\* the block's variable is given a name no other variable has, the outer
\* variable being what it was after the block.
C26_ShadowedStorage ==
    (sem_pc = "accepted" /\ ir_pc = "generated") =>
        /\ \A i, j \in 1..Len(DeclaredNames(ir_instructions)) :
              i # j => DeclaredNames(ir_instructions)[i].name #
                       DeclaredNames(ir_instructions)[j].name
        /\ \A apart \in {generate_ir(Apart(ast))} :
              Execute(ir_instructions).out = Execute(apart).out

\* the names new_temp handed out in the generate_ir call for the program
HandedOut(program) ==
    {<<"t">> \o str(k) :
        k \in 0..(ir_visit_statements(program, IRGenerator).temp_count - 1)}

\* C27: the names new_temp hands out in the generate_ir call for an accepted
\* program are none of the names the program declares, and _is_temp is
\* false of every name the program declares: the optimizer takes no
\* variable of the program for a temp.
C27_TempsApartFromVariables ==
    (sem_pc = "accepted" /\ ir_pc = "generated") =>
        \A name \in DeclaredIn(ast) :
            /\ name \notin HandedOut(ast)
            /\ ~_is_temp(name)

(***************************************************************************)
(* C28: copy_propagation                                                   *)
(***************************************************************************)
\* every temp of the list is assigned by exactly one instruction, and read
\* only by later ones
AssignedOnceBeforeUse(instrs) ==
    \A name \in TempNames(instrs) :
        /\ Cardinality(DefinitionsOf(instrs, name)) = 1
        /\ \A j \in 1..Len(instrs) :
              name \in Operands(instrs[j]) =>
                  \A i \in DefinitionsOf(instrs, name) : i < j

\* C28: for a TAC list in which every temp is assigned exactly once, before
\* it is read, and whose run ends without a fault, the list copy_propagation
\* returns runs without a fault and prints the same values; so it does when
\* the source of a copy t = r is a variable of the program that is assigned
\* again before t is read.
C28_CopyPropagationPreserves ==
    \A k \in CallsOf("copy_propagation") :
        \A given \in {pass_log[k].given} :
            (AssignedOnceBeforeUse(given) /\ Execute(given).fault = "none") =>
                /\ ~pass_log[k].hangs
                /\ \A returned \in {pass_log[k].returned} :
                      /\ Execute(returned).fault = "none"
                      /\ Execute(returned).out = Execute(given).out

(***************************************************************************)
(* C29, C30: the stack frame of the generated code                         *)
(***************************************************************************)
\* the names the code generated for the list reads from or writes to a slot
SlotNames(instrs) ==
    UNION {{name \in Operands(instrs[i]) : ~asm_is_constant(name)}
           \cup (IF has_dest(instrs[i]) THEN {instrs[i].dest} ELSE {}) :
           i \in 1..Len(instrs)}

\* C29: whenever generate has been called on the TAC of an accepted program,
\* as generate_ir returned it or as optimize returned it, every name that
\* the code reads from or writes to a slot has an offset in var_offsets:
\* the offset 0 of var_offsets.get(name, 0) is never taken.
C29_EverySlotAllocated ==
    \A g \in 1..Len(generated) :
        SlotNames(generated[g].instructions) \subseteq
            DOMAIN generated[g].self.var_offsets

\* generate has been called on a list optimize returned that reads a
\* variable of the program and writes a temp
C29_Witness ==
    /\ opt_pc = "returned"
    /\ generated # <<>>
    /\ \E name \in SlotNames(generated[1].instructions) : _is_temp(name)
    /\ \E name \in SlotNames(generated[1].instructions) : ~_is_temp(name)

\* %rsp after `pushq %rbp` and `subq $N*8, %rsp`, N the number of slots, for
\* the %rsp the call of main left
rsp_after_prologue(entry, offsets) == entry - 8 - Cardinality(DOMAIN offsets) * 8

\* the code has a call of printf
CallsPrintf(text_lines) ==
    \E i \in 1..Len(text_lines) : text_lines[i] = <<"    call    printf@PLT">>

\* values of %rsp on entry to main that leave room for the frame: 8 more
\* than a multiple of 16, as the call instruction leaves it
EntryStacks(offsets) ==
    {16 * k + 8 : k \in (Cardinality(DOMAIN offsets) + 1)..(Cardinality(DOMAIN offsets) + 2)}

\* C30: in the code generate returned, %rsp is a multiple of 16 at every
\* `call printf@PLT`: nothing moves %rsp between the prologue and the
\* epilogue, and after the prologue it is a multiple of 16 whenever it was 8
\* more than one on entry, for an odd number N of slots as for an even one.
C30_StackAligned ==
    \A g \in 1..Len(generated) :
        CallsPrintf(generated[g].self.asm_lines) =>
            \A entry \in EntryStacks(generated[g].self.var_offsets) :
                rsp_after_prologue(entry, generated[g].self.var_offsets) % 16 = 0

====
